---------------------------- MODULE Spec2Model ----------------------------
(***************************************************************************)
(* A model of the bandits-notification schedule monitor: the per-URL      *)
(* processor (internal/processor ProcessURL and its three mode handlers), *)
(* the schedule helpers it calls (internal/schedule), the S3 client       *)
(* (internal/storage) and the Twitter client (internal/twitter), run by   *)
(* the command-line entry point (cmd/bandits-notification).               *)
(*                                                                         *)
(* One step of the model is one call that leaves the process (Twitter,    *)
(* the page scraper, S3, the local file system) together with the pure    *)
(* code that follows it up to the next such call.  Every such call may    *)
(* fail, and the process may be killed between any two of them.           *)
(***************************************************************************)
EXTENDS Integers, Sequences, FiniteSets, TLC

(***************************************************************************)
(* Bounds of the model.                                                    *)
(***************************************************************************)
\* Number of runs of the processor that are followed.
MaxRuns == 2
\* Largest value of the wall clock (time.Now().Unix()); it starts at 0.
MaxTime == 1

(***************************************************************************)
(* Process modes (processor.ProcessMode).                                  *)
(***************************************************************************)
ModeNormal  == "ModeNormal"
ModeDryRun  == "ModeDryRun"
ModeNoTweet == "ModeNoTweet"

(***************************************************************************)
(* Pages.  A scraped page is the sequence of classified elements that     *)
(* ParseSchedule builds in its first pass: long date headers, activity    *)
(* rows and short-date rows, in document order.                           *)
(***************************************************************************)
DateEl(dow, dom) ==
    [elementType |-> "date", dayOfWeek |-> dow, dayOfMonth |-> dom,
     purpose |-> "", location |-> "", timeBlock |-> ""]

ActivityEl(p, l, t) ==
    [elementType |-> "activity", dayOfWeek |-> "", dayOfMonth |-> "",
     purpose |-> p, location |-> l, timeBlock |-> t]

SimpleDateEl(dom, p, l, t) ==
    [elementType |-> "simple-date", dayOfWeek |-> "", dayOfMonth |-> dom,
     purpose |-> p, location |-> l, timeBlock |-> t]

PageEmpty == << >>
PageA == << DateEl("TUESDAY", "10/3"), ActivityEl("Practice", "Warren", "4:45-6:45") >>
\* PageA with the time of the row changed.
PageB == << DateEl("TUESDAY", "10/3"), ActivityEl("Practice", "Warren", "4:30-6:30") >>
\* PageA with a short-date row added (its purpose is empty).
PageC == PageA \o << SimpleDateEl("11/19", "", "BTC", "6:00-7:30") >>

Pages == {PageEmpty, PageA, PageB, PageC}

(***************************************************************************)
(* Schedules: maps from entry key to ScheduleEntry.  A long key           *)
(* "DOW, M/D" is the pair <<DOW, M/D>>, a short key "M/D" is <<M/D>>.      *)
(***************************************************************************)
\* ParsedTime = nil: parseTime returns nil for every time block.
NoTime == << >>

\* A time.Time: its instant, and whether it carries a monotonic clock reading.
Time(instant, monotonic) == [instant |-> instant, monotonic |-> monotonic]

ScheduleEntry(dow, dom, p, l, t) ==
    [dayOfWeek |-> dow, dayOfMonth |-> dom, location |-> l,
     timeBlock |-> t, purpose |-> p, parsedTime |-> NoTime]

EmptySchedule == << >>

\* schedule[key] = entry
Assign(schedule, key, entry) ==
    [k \in DOMAIN schedule \cup {key} |->
        IF k = key THEN entry ELSE schedule[k]]

\* The second pass of ParseSchedule.  currentDate is << >> (the empty string)
\* until a date header is seen, and then the header's <<DOW, M/D>>.
RECURSIVE ProcessElements(_, _, _)
ProcessElements(elements, currentDate, schedule) ==
    IF elements = << >> THEN schedule
    ELSE LET element == Head(elements)
             rest == Tail(elements)
         IN  IF element.elementType = "date"
             THEN ProcessElements(rest, <<element.dayOfWeek, element.dayOfMonth>>,
                                  schedule)
             ELSE IF element.elementType = "activity" /\ currentDate # << >>
             THEN ProcessElements(rest, currentDate,
                      Assign(schedule,
                             currentDate,
                             ScheduleEntry(currentDate[1], currentDate[2],
                                           element.purpose, element.location,
                                           element.timeBlock)))
             ELSE IF element.elementType = "simple-date"
             THEN ProcessElements(rest, currentDate,
                      Assign(schedule,
                             <<element.dayOfMonth>>,
                             ScheduleEntry("", element.dayOfMonth,
                                           element.purpose, element.location,
                                           element.timeBlock)))
             ELSE ProcessElements(rest, currentDate, schedule)

ParseSchedule(htmlContent) ==
    IF htmlContent = << >> THEN EmptySchedule
    ELSE ProcessElements(htmlContent, << >>, EmptySchedule)

Schedules == {ParseSchedule(p) : p \in Pages}

(***************************************************************************)
(* Text.  A text is a sequence of tokens: a token is one character (a     *)
(* space, a comma, a colon, a dash, a zero-width character) or a run of   *)
(* characters that the patterns of the parser take as a whole (a day      *)
(* name, a date M/D, a time H:MM, a word or phrase).                      *)
(***************************************************************************)
\* U+200B, U+200C, U+200D and U+FEFF; none of them is white space to Go.
ZeroWidth == {"U+200B", "U+200C", "U+200D", "U+FEFF"}
Hyphen == "-"
EnDash == "U+2013"
EmDash == "U+2014"
Dashes == {Hyphen, EnDash, EmDash}
DayNames == {"TUESDAY", "SATURDAY"}
\* \d+/\d+
Dates == {"10/3", "10/7", "11/19"}
\* \d+:\d+
Times == {"4:45", "6:45", "4:30", "6:00", "7:30"}
\* Words and phrases; none holds a comma, a colon or a digit.
Words == {"Practice", "Warren", "BTC", "Late", "Aiden", "Zach",
          "Practice is canceled"}

\* strings.ReplaceAll(text, c, "") for every c of chars
RemoveAll(text, chars) == SelectSeq(text, LAMBDA c : c \notin chars)

\* strings.ReplaceAll(text, from, to), from and to one character each
ReplaceAll(text, from, to) ==
    [i \in DOMAIN text |-> IF text[i] = from THEN to ELSE text[i]]

RECURSIVE TrimLeft(_)
TrimLeft(text) ==
    IF text # << >> /\ Head(text) = " " THEN TrimLeft(Tail(text)) ELSE text

RECURSIVE TrimRight(_)
TrimRight(text) ==
    IF text # << >> /\ text[Len(text)] = " "
    THEN TrimRight(SubSeq(text, 1, Len(text) - 1))
    ELSE text

\* strings.TrimSpace
TrimSpace(text) == TrimRight(TrimLeft(text))

\* SanitizeText trimming before it removes the invisible characters.
SanitizeTextTrimsFirst(text) ==
    IF text = << >> THEN text
    ELSE ReplaceAll(RemoveAll(TrimSpace(text), ZeroWidth), EnDash, Hyphen)

\* scraper.SanitizeText
SanitizeText(text) ==
    IF text = << >> THEN text
    ELSE TrimSpace(ReplaceAll(RemoveAll(text, ZeroWidth), EnDash, Hyphen))

\* The string of a text: its tokens one after the other.
RECURSIVE String(_)
String(text) == IF text = << >> THEN "" ELSE Head(text) \o String(Tail(text))

(***************************************************************************)
(* The first loop of ParseSchedule and parseEventText, on documents: a    *)
(* document is the sequence of the texts of its elements, s.Text() in the *)
(* order in which doc.Find("*").Each visits them.                         *)
(***************************************************************************)
\* text := TrimSpace(s.Text()); remove U+200B; TrimSpace again
ElementText(raw) == TrimSpace(RemoveAll(TrimSpace(raw), {"U+200B"}))

\* ^(SUNDAY|...|SATURDAY),\s*(\d+/\d+)$
IsDateHeader(text) ==
    /\ Len(text) >= 3
    /\ text[1] \in DayNames
    /\ text[2] = ","
    /\ text[Len(text)] \in Dates
    /\ \A i \in 3..(Len(text) - 1) : text[i] = " "

\* ^(\d+/\d+)\s*:\s*(.+)$ : the text of (.+), << >> without a match
SimpleDateRest(text) ==
    IF text = << >> \/ Head(text) \notin Dates THEN << >>
    ELSE LET afterDate == TrimLeft(Tail(text))
         IN  IF afterDate = << >> \/ Head(afterDate) # ":" THEN << >>
             ELSE TrimLeft(Tail(afterDate))

Contains(text, chars) == \E i \in DOMAIN text : text[i] \in chars

\* strings.Contains(text, ",") && (strings.Contains(text, ":") ||
\* the lower-cased text contains "practice" || ... "game")
IsActivity(text) ==
    /\ Contains(text, {","})
    /\ \/ Contains(text, {":"} \cup Times)
       \/ Contains(text, {"Practice", "Practice is canceled"})

\* strings.Split(text, ","), each part a text
RECURSIVE SplitComma(_, _)
SplitComma(text, part) ==
    IF text = << >> THEN <<part>>
    ELSE IF Head(text) = "," THEN <<part>> \o SplitComma(Tail(text), << >>)
    ELSE SplitComma(Tail(text), Append(part, Head(text)))

\* The parts trimmed, the empty ones left out.
FilteredParts(text) ==
    LET parts == SplitComma(text, << >>)
        trimmed == [i \in DOMAIN parts |-> TrimSpace(parts[i])]
    IN  SelectSeq(trimmed, LAMBDA p : p # << >>)

\* strings.Join(parts, ", ")
RECURSIVE Join(_)
Join(parts) ==
    IF parts = << >> THEN ""
    ELSE IF Len(parts) = 1 THEN String(parts[1])
    ELSE String(parts[1]) \o ", " \o Join(Tail(parts))

\* Index of the first match of \d+:\d+ in text, 0 without one.
RECURSIVE FirstTime(_, _)
FirstTime(text, i) ==
    IF i > Len(text) THEN 0
    ELSE IF text[i] \in Times THEN i
    ELSE FirstTime(text, i + 1)

\* parseEventText: purpose, location and time block of the text of a row
parseEventText(eventText) ==
    LET text == TrimSpace(SanitizeText(eventText))
        i == FirstTime(text, 1)
    IN  IF i > 0
        THEN LET range == /\ i + 2 <= Len(text)
                          /\ text[i + 1] \in Dashes
                          /\ text[i + 2] \in Times
                 timeMatch == IF range THEN SubSeq(text, i, i + 2) ELSE <<text[i]>>
                 timeBlock == ReplaceAll(ReplaceAll(timeMatch, EnDash, Hyphen),
                                         EmDash, Hyphen)
                 before == SubSeq(text, 1, i - 1)
                 beforeTime == TrimSpace(IF before # << >> /\ before[Len(before)] = ","
                                         THEN SubSeq(before, 1, Len(before) - 1)
                                         ELSE before)
                 parts == FilteredParts(beforeTime)
             IN  [purpose |-> IF Len(parts) >= 2
                              THEN Join(SubSeq(parts, 1, Len(parts) - 1)) ELSE "",
                  location |-> IF Len(parts) >= 1
                               THEN String(parts[Len(parts)]) ELSE "",
                  timeBlock |-> String(timeBlock)]
        ELSE LET parts == FilteredParts(text)
             IN  [purpose |-> IF Len(parts) >= 2
                              THEN Join(SubSeq(parts, 1, Len(parts) - 1)) ELSE "",
                  location |-> IF Len(parts) >= 2
                               THEN String(parts[Len(parts)])
                               ELSE String(TrimSpace(text)),
                  timeBlock |-> ""]

\* The element the first loop appends for the text of one element of the
\* document, << >> when it appends none.
Classify(raw) ==
    LET text == ElementText(raw)
    IN  IF text = << >> THEN << >>
        ELSE IF IsDateHeader(text) THEN <<DateEl(text[1], text[Len(text)])>>
        ELSE IF SimpleDateRest(text) # << >>
        THEN LET e == parseEventText(SimpleDateRest(text))
             IN  <<SimpleDateEl(Head(text), e.purpose, e.location, e.timeBlock)>>
        ELSE IF IsActivity(text)
        THEN LET e == parseEventText(text)
             IN  <<ActivityEl(e.purpose, e.location, e.timeBlock)>>
        ELSE << >>

\* elements, after the first loop
RECURSIVE Elements(_)
Elements(doc) ==
    IF doc = << >> THEN << >> ELSE Classify(Head(doc)) \o Elements(Tail(doc))

\* ParseSchedule of the HTML of a document
ParseDocument(doc) == ParseSchedule(Elements(doc))

(***************************************************************************)
(* CompareSchedules and HasChanges.  NilSchedule stands for Go's nil map   *)
(* (a marker value that is no schedule of the model).                     *)
(***************************************************************************)
NilSchedule == [k \in {<<"nil">>} |-> "nil"]

\* The keys a range over the map visits: none for the nil map.
Keys(schedule) == IF schedule = NilSchedule THEN {} ELSE DOMAIN schedule

Restrict(schedule, keys) == [k \in keys |-> schedule[k]]

\* CompareSchedules with the test "!exists" of its first loop left out.
CompareSchedulesDeletesAll(old, new) ==
    IF old = NilSchedule
    THEN [Added |-> Restrict(new, Keys(new)), Deleted |-> EmptySchedule,
          Modified |-> EmptySchedule, Unchanged |-> EmptySchedule]
    ELSE [Added     |-> Restrict(new, {k \in Keys(new) : k \notin Keys(old)}),
          Deleted   |-> Restrict(old, Keys(old)),
          Modified  |-> Restrict(new, {k \in Keys(new) : k \in Keys(old) /\
                           (old[k].location # new[k].location
                            \/ old[k].timeBlock # new[k].timeBlock
                            \/ old[k].purpose # new[k].purpose)}),
          Unchanged |-> Restrict(new, {k \in Keys(new) : k \in Keys(old) /\
                           ~(old[k].location # new[k].location
                             \/ old[k].timeBlock # new[k].timeBlock
                             \/ old[k].purpose # new[k].purpose)})]

\* CompareSchedules with ParsedTime among the fields it compares.
CompareSchedulesWithParsedTime(old, new) ==
    IF old = NilSchedule
    THEN [Added |-> Restrict(new, Keys(new)), Deleted |-> EmptySchedule,
          Modified |-> EmptySchedule, Unchanged |-> EmptySchedule]
    ELSE [Added     |-> Restrict(new, {k \in Keys(new) : k \notin Keys(old)}),
          Deleted   |-> Restrict(old, {k \in Keys(old) : k \notin Keys(new)}),
          Modified  |-> Restrict(new, {k \in Keys(new) : k \in Keys(old) /\
                           (old[k].location # new[k].location
                            \/ old[k].timeBlock # new[k].timeBlock
                            \/ old[k].purpose # new[k].purpose
                            \/ old[k].parsedTime # new[k].parsedTime)}),
          Unchanged |-> Restrict(new, {k \in Keys(new) : k \in Keys(old) /\
                           ~(old[k].location # new[k].location
                             \/ old[k].timeBlock # new[k].timeBlock
                             \/ old[k].purpose # new[k].purpose
                             \/ old[k].parsedTime # new[k].parsedTime)})]

CompareSchedules(old, new) ==
    IF old = NilSchedule
    THEN [Added |-> Restrict(new, Keys(new)), Deleted |-> EmptySchedule,
          Modified |-> EmptySchedule, Unchanged |-> EmptySchedule]
    ELSE [Added     |-> Restrict(new, {k \in Keys(new) : k \notin Keys(old)}),
          Deleted   |-> Restrict(old, {k \in Keys(old) : k \notin Keys(new)}),
          Modified  |-> Restrict(new, {k \in Keys(new) : k \in Keys(old) /\
                           (old[k].location # new[k].location
                            \/ old[k].timeBlock # new[k].timeBlock
                            \/ old[k].purpose # new[k].purpose)}),
          Unchanged |-> Restrict(new, {k \in Keys(new) : k \in Keys(old) /\
                           ~(old[k].location # new[k].location
                             \/ old[k].timeBlock # new[k].timeBlock
                             \/ old[k].purpose # new[k].purpose)})]

\* HasChanges with the test of Unchanged added to it by mistake.
HasChangesCountsUnchanged(d) ==
    Cardinality(DOMAIN d.Added) > 0 \/ Cardinality(DOMAIN d.Deleted) > 0
        \/ Cardinality(DOMAIN d.Modified) > 0 \/ Cardinality(DOMAIN d.Unchanged) >= 0

HasChanges(d) ==
    Cardinality(DOMAIN d.Added) > 0 \/ Cardinality(DOMAIN d.Deleted) > 0
        \/ Cardinality(DOMAIN d.Modified) > 0

(***************************************************************************)
(* SerializeSchedule / DeserializeSchedule.  json.Marshal writes a map    *)
(* with its keys in ascending order and leaves out an empty purpose and a *)
(* nil parsedTime (omitempty); a time is written as its RFC 3339 text,    *)
(* which has no monotonic clock reading; json.Unmarshal gives a missing   *)
(* field its zero value.                                                  *)
(* The bytes are modelled as the sequence of members written.             *)
(***************************************************************************)
\* The keys of the model in ascending byte order ("1" < "T").
KeyOrder == << <<"11/19">>, <<"TUESDAY", "10/3">> >>

MarshalEntry(e) ==
    [f \in {"dayOfWeek", "dayOfMonth", "location", "timeBlock"}
           \cup (IF e.purpose = "" THEN {} ELSE {"purpose"})
           \cup (IF e.parsedTime = NoTime THEN {} ELSE {"parsedTime"}) |->
        IF f = "parsedTime" THEN <<e.parsedTime.instant>> ELSE e[f]]

\* UnmarshalEntry reading the time block from a member named "time".
UnmarshalEntryTimeTag(j) ==
    [f \in {"dayOfWeek", "dayOfMonth", "location", "timeBlock", "purpose",
            "parsedTime"} |->
        IF f = "parsedTime"
        THEN IF f \in DOMAIN j THEN Time(j[f][1], FALSE) ELSE NoTime
        ELSE IF f = "timeBlock"
        THEN IF "time" \in DOMAIN j THEN j["time"] ELSE ""
        ELSE IF f \in DOMAIN j THEN j[f] ELSE ""]

UnmarshalEntry(j) ==
    [f \in {"dayOfWeek", "dayOfMonth", "location", "timeBlock", "purpose",
            "parsedTime"} |->
        IF f = "parsedTime"
        THEN IF f \in DOMAIN j THEN Time(j[f][1], FALSE) ELSE NoTime
        ELSE IF f \in DOMAIN j THEN j[f] ELSE ""]

RECURSIVE MarshalMembers(_, _)
MarshalMembers(keys, schedule) ==
    IF keys = << >> THEN << >>
    ELSE IF Head(keys) \in DOMAIN schedule
         THEN << [key |-> Head(keys), value |-> MarshalEntry(schedule[Head(keys)])] >>
                  \o MarshalMembers(Tail(keys), schedule)
         ELSE MarshalMembers(Tail(keys), schedule)

\* The bytes "null": what json.Marshal writes for a nil map.
JsonNull == << [key |-> << >>, value |-> << >>] >>

SerializeSchedule(schedule) ==
    IF schedule = NilSchedule THEN JsonNull
    ELSE MarshalMembers(KeyOrder, schedule)

RECURSIVE UnmarshalMembers(_, _)
UnmarshalMembers(data, schedule) ==
    IF data = << >> THEN schedule
    ELSE UnmarshalMembers(Tail(data),
             Assign(schedule, Head(data).key, UnmarshalEntry(Head(data).value)))

\* The bytes "{}" hold no member and are not the empty byte string; both
\* deserialize to the empty map.
DeserializeSchedule(data) ==
    IF Len(data) = 0 THEN EmptySchedule
    ELSE IF data = JsonNull THEN NilSchedule
    ELSE UnmarshalMembers(data, EmptySchedule)

(***************************************************************************)
(* Object keys.                                                            *)
(***************************************************************************)
\* A URL: whether url.Parse accepts it, the text before its path (scheme and
\* host) and its path, split at "/" (a path that ends in "/" has a last
\* segment that is empty).  The query and the fragment are no part of the path.
URL(parses, origin, path) == [parses |-> parses, origin |-> origin, path |-> path]

MonitoredURL == URL(TRUE, "https://www.brooklinebaseball.net", <<"bandits12u">>)

\* strings.TrimSuffix(urlStr, "/") and strings.Split(_, "/") of the fallback.
FallbackParts(url) ==
    LET whole == <<"https:", "", url.origin>> \o url.path
    IN  IF whole[Len(whole)] = "" THEN SubSeq(whole, 1, Len(whole) - 1) ELSE whole

\* The last segment of pathSegments that is not empty, "unknown" without one.
RECURSIVE LastNonEmpty(_)
LastNonEmpty(pathSegments) ==
    IF pathSegments = << >> THEN "unknown"
    ELSE IF pathSegments[Len(pathSegments)] # "" THEN pathSegments[Len(pathSegments)]
    ELSE LastNonEmpty(SubSeq(pathSegments, 1, Len(pathSegments) - 1))

GetURLIdentifier(url, isTest) ==
    LET identifier ==
            IF url.parses THEN LastNonEmpty(url.path)
            ELSE LET parts == FallbackParts(url)
                 IN  IF parts[Len(parts)] = "" /\ Len(parts) > 1
                     THEN parts[Len(parts) - 1]
                     ELSE parts[Len(parts)]
    IN  IF isTest THEN identifier \o "-test" ELSE identifier

\* GetURLIdentifier of the monitored URL, isTest = false.
URLIdentifier == GetURLIdentifier(MonitoredURL, FALSE)

\* GetTimestampedFilename: base-YYYY-M-D-<unix seconds>.ext at wall clock t.
GetTimestampedFilename(base, extension, t) ==
    [base |-> base, stamp |-> <<t>>, ext |-> extension]

PreviousScheduleFile == [base |-> "previousSchedule", stamp |-> << >>, ext |-> "json"]

\* urlIdentifier + "/" + filename, and urlIdentifier + "/archive/" + filename
S3Key(urlIdentifier, folder, filename) ==
    [prefix |-> urlIdentifier, folder |-> folder, file |-> filename]

PreviousKey == S3Key(URLIdentifier, "", PreviousScheduleFile)


\* The PNG the scraper renders of a page.
Render(htmlContent) == << [png |-> htmlContent] >>

(***************************************************************************)
(* State.                                                                  *)
(***************************************************************************)
VARIABLES
    store,       \* the S3 bucket: object key -> bytes (a missing key: no object)
    now,         \* the wall clock, in seconds
    uploads,     \* Twitter: number of media uploaded so far (the last media id)
    tweets,      \* Twitter: the tweets posted, each with its media ids
    localFiles,  \* the local files written under dry-run-output/
    pc,          \* where the current run of ProcessURL stands
    mode,        \* opts.Mode of the current run
    result,      \* the ProcessResult of the current run
    mediaID,     \* handleNormalMode's mediaID (0: not set)
    html,        \* history: the page the current run scraped
    log,         \* history: the outside calls of the current run, in order
    store0,      \* history: the bucket as it was when the current run started
    runs,        \* history: number of runs started
    last,        \* history: the run before the current one
    url,         \* urlConfig.URL of the current run
    cli,         \* the invocation of the command line that makes the runs
    input,       \* the arguments of the functions of package schedule
    call,        \* the function of package schedule applied, and its return
    peer         \* a second run of ProcessURL, while the current one takes a step

vars == <<store, now, uploads, tweets, localFiles, pc, mode, result, mediaID,
          html, log, store0, runs, last, url, cli,
          input, call, peer>>

NoRun == [ran |-> FALSE]

\* No invocation of the command line is followed.
NoInvocation == [phase |-> "none"]

\* No function of package schedule is followed on its own.
NoInput == [old |-> NilSchedule, new |-> NilSchedule]
NoCall == [op |-> "none"]

\* No second run of ProcessURL is in progress.
NoPeer == [pc |-> "none"]

\* result := &ProcessResult{URL, TwitterHandle, ChangesFound: false}
NewResult ==
    [Error |-> "", ChangesFound |-> FALSE, TweetID |-> 0,
     CurrentSchedule |-> NilSchedule, PreviousSchedule |-> NilSchedule,
     Screenshot |-> << >>, URLIdentifier |-> ""]

Init ==
    /\ store \in {<< >>} \cup
                 {[k \in {PreviousKey} |-> SerializeSchedule(s)] : s \in Schedules}
    /\ now = 0
    /\ uploads = 0
    /\ tweets = << >>
    /\ localFiles = {}
    /\ pc = "idle"
    /\ mode = ModeNormal
    /\ result = NewResult
    /\ mediaID = 0
    /\ html = << >>
    /\ log = << >>
    /\ store0 = store
    /\ runs = 0
    /\ last = NoRun
    /\ url = MonitoredURL
    /\ cli = NoInvocation
    /\ input = NoInput
    /\ call = NoCall
    /\ peer = NoPeer

Called(op, ok) == log' = Append(log, [op |-> op, ok |-> ok])

\* S3Client.UploadFile: PutObject, or an error and no change.
UploadFile(data, key, ok) ==
    store' = IF ok THEN [k \in DOMAIN store \cup {key} |->
                            IF k = key THEN data ELSE store[k]]
             ELSE store

\* SaveSchedule: serialize, then UploadFile to urlIdentifier/filename.
SaveSchedule(schedule, key, ok) ==
    UploadFile(SerializeSchedule(schedule), key, ok)

\* The run as the next one will remember it: its mode, the page it scraped,
\* where it stopped, what it reported and what it had called by then.
Summary ==
    [ran |-> TRUE, mode |-> mode, html |-> html, pc |-> pc,
     Error |-> result.Error, ChangesFound |-> result.ChangesFound,
     CurrentSchedule |-> result.CurrentSchedule,
     PreviousSchedule |-> result.PreviousSchedule,
     log |-> log]

\* processURL of the command line: the mode the two flags select.
ModeOf(dryRun, noTweet) ==
    IF noTweet THEN ModeNoTweet
    ELSE IF dryRun THEN ModeDryRun
    ELSE ModeNormal

(***************************************************************************)
(* The steps of one run.                                                   *)
(***************************************************************************)
\* The scheduler starts the program: processURL picks the mode and calls
\* ProcessURL, which builds its result.  A run that has not returned by then
\* was killed where it stood (a crash, or the host's timeout).
StartRun ==
    /\ runs < MaxRuns
    /\ \E dryRun \in BOOLEAN, noTweet \in BOOLEAN :
          mode' = ModeOf(dryRun, noTweet)
    /\ last' = IF runs = 0 THEN NoRun ELSE Summary
    /\ runs' = runs + 1
    /\ result' = NewResult
    /\ mediaID' = 0
    /\ html' = << >>
    /\ log' = << >>
    /\ store0' = store
    /\ pc' = "verify"
    /\ UNCHANGED <<store, now, uploads, tweets, localFiles, url, cli,
                   input, call, peer>>

\* VerifyCredentials with its failure only logged.
VerifyCredentialsWarning ==
    /\ pc = "verify"
    /\ \E ok \in BOOLEAN : Called("verifyCredentials", ok)
    /\ pc' = "scrape"
    /\ UNCHANGED <<store, now, uploads, tweets, localFiles, mode, result, mediaID,
                   html, store0, runs, last, url, cli,
                   input, call, peer>>

\* twitterClient.VerifyCredentials(), in every mode.
VerifyCredentials ==
    /\ pc = "verify"
    /\ \E ok \in BOOLEAN :
          /\ Called("verifyCredentials", ok)
          /\ IF ok
             THEN /\ pc' = "scrape"
                  /\ UNCHANGED result
             ELSE /\ result' = [result EXCEPT !.Error = "failed to verify Twitter credentials"]
                  /\ pc' = "done"
    /\ UNCHANGED <<store, now, uploads, tweets, localFiles, mode, mediaID, html,
                   store0, runs, last, url, cli,
                   input, call, peer>>

\* scrapeClient.ScrapePage, then ParseSchedule and GetURLIdentifier.
ScrapePage ==
    /\ pc = "scrape"
    /\ \E ok \in BOOLEAN, page \in Pages :
          /\ Called("scrapePage", ok)
          /\ IF ok
             THEN /\ html' = page
                  /\ result' = [result EXCEPT !.Screenshot = Render(page),
                                              !.CurrentSchedule = ParseSchedule(page),
                                              !.URLIdentifier = GetURLIdentifier(url, FALSE)]
                  /\ pc' = "load"
             ELSE /\ result' = [result EXCEPT !.Error = "failed to scrape page"]
                  /\ pc' = "done"
                  /\ UNCHANGED html
    /\ UNCHANGED <<store, now, uploads, tweets, localFiles, mode, mediaID, store0,
                   runs, last, url, cli,
                   input, call, peer>>

\* DownloadFile without the test isNoSuchKeyError: a missing key is an error.
DownloadFileMissingIsError(key, ok) ==
    IF ~ok THEN [data |-> << >>, err |-> TRUE]
    ELSE IF key \in DOMAIN store THEN [data |-> store[key], err |-> FALSE]
    ELSE [data |-> << >>, err |-> TRUE]

\* S3Client.DownloadFile: the object's bytes; nil bytes and no error for a
\* missing key; an error otherwise.
DownloadFile(key, ok) ==
    IF ~ok THEN [data |-> << >>, err |-> TRUE]
    ELSE IF key \in DOMAIN store THEN [data |-> store[key], err |-> FALSE]
    ELSE [data |-> << >>, err |-> FALSE]

\* LoadPrevious reading the key of the monitored URL whatever URL the run is
\* for.
LoadPreviousOfMonitoredURL(ok) ==
    LET got == DownloadFile(PreviousKey, ok)
    IN  IF got.err THEN EmptySchedule ELSE DeserializeSchedule(got.data)

\* LoadSchedule: DownloadFile, then DeserializeSchedule of the bytes.
LoadSchedule(key, ok) ==
    LET got == DownloadFile(key, ok)
    IN  IF got.err THEN [schedule |-> NilSchedule, err |-> TRUE]
        ELSE [schedule |-> DeserializeSchedule(got.data), err |-> FALSE]

\* LoadSchedule as ProcessURL uses it: on any error the previous schedule is
\* an empty one.
LoadPrevious(ok) ==
    LET got == LoadSchedule(S3Key(result.URLIdentifier, "", PreviousScheduleFile), ok)
    IN  IF got.err THEN EmptySchedule ELSE got.schedule

\* The switch with the handlers of ModeNormal and ModeNoTweet exchanged.
HandlerOfExchanged(m) ==
    CASE m = ModeNoTweet -> "normal_screenshot"
      [] m = ModeDryRun  -> "dryrun"
      [] m = ModeNormal  -> "notweet_screenshot"

\* The switch with ModeDryRun sent to the handler of ModeNoTweet.
HandlerOfDryRunWrites(m) ==
    CASE m = ModeNoTweet -> "notweet_screenshot"
      [] m = ModeDryRun  -> "notweet_screenshot"
      [] m = ModeNormal  -> "normal_screenshot"

\* The first step of the handler that ProcessURL's switch selects.
HandlerOf(m) ==
    CASE m = ModeNoTweet -> "notweet_screenshot"
      [] m = ModeDryRun  -> "dryrun"
      [] m = ModeNormal  -> "normal_screenshot"

\* LoadSchedule, CompareSchedules, the HasChanges test and the switch on mode.
LoadAndCompare ==
    /\ pc = "load"
    /\ \E ok \in BOOLEAN :
          LET previousSchedule == LoadPrevious(ok)
              diff == CompareSchedules(previousSchedule, result.CurrentSchedule)
          IN  /\ Called("downloadPrevious", ok)
              /\ IF ~HasChanges(diff)
                 THEN /\ result' = [result EXCEPT !.PreviousSchedule = previousSchedule]
                      /\ pc' = "done"
                 ELSE /\ result' = [result EXCEPT !.PreviousSchedule = previousSchedule,
                                                  !.ChangesFound = TRUE]
                      /\ pc' = HandlerOf(mode)
    /\ UNCHANGED <<store, now, uploads, tweets, localFiles, mode, mediaID, html,
                   store0, runs, last, url, cli,
                   input, call, peer>>

ArchiveKey(base, extension) ==
    S3Key(result.URLIdentifier, "archive", GetTimestampedFilename(base, extension, now))

(***************************************************************************)
(* handleNormalMode.                                                       *)
(***************************************************************************)
\* The upload of the screenshot with its failure made fatal, like the
\* failures of UploadMedia and PostTweet.
NormalUploadScreenshotFatal ==
    /\ pc = "normal_screenshot"
    /\ \E ok \in BOOLEAN :
          /\ Called("putScreenshot", ok)
          /\ UploadFile(result.Screenshot, ArchiveKey("schedule-screenshot", "png"), ok)
          /\ IF ok
             THEN /\ pc' = "normal_media"
                  /\ UNCHANGED result
             ELSE /\ result' = [result EXCEPT !.Error = "failed to upload screenshot"]
                  /\ pc' = "done"
    /\ UNCHANGED <<now, uploads, tweets, localFiles, mode, mediaID, html,
                   store0, runs, last, url, cli,
                   input, call, peer>>

NormalUploadScreenshot ==
    /\ pc = "normal_screenshot"
    /\ \E ok \in BOOLEAN :
          /\ Called("putScreenshot", ok)
          /\ UploadFile(result.Screenshot, ArchiveKey("schedule-screenshot", "png"), ok)
    /\ pc' = "normal_media"
    /\ UNCHANGED <<now, uploads, tweets, localFiles, mode, result, mediaID, html,
                   store0, runs, last, url, cli,
                   input, call, peer>>

\* UploadMedia with its failure only logged, like the failures of the puts.
NormalUploadMediaWarning ==
    /\ pc = "normal_media"
    /\ \E ok \in BOOLEAN :
          /\ Called("uploadMedia", ok)
          /\ IF ok
             THEN /\ uploads' = uploads + 1
                  /\ mediaID' = uploads + 1
             ELSE UNCHANGED <<uploads, mediaID,
                   input, call, peer>>
    /\ pc' = "normal_tweet"
    /\ UNCHANGED <<store, now, tweets, localFiles, mode, result, html, store0,
                   runs, last, url, cli,
                   input, call, peer>>

NormalUploadMedia ==
    /\ pc = "normal_media"
    /\ \E ok \in BOOLEAN :
          /\ Called("uploadMedia", ok)
          /\ IF ok
             THEN /\ uploads' = uploads + 1
                  /\ mediaID' = uploads + 1
                  /\ pc' = "normal_tweet"
                  /\ UNCHANGED result
             ELSE /\ result' = [result EXCEPT !.Error = "failed to upload media"]
                  /\ pc' = "done"
                  /\ UNCHANGED <<uploads, mediaID>>
    /\ UNCHANGED <<store, now, tweets, localFiles, mode, html, store0,
                   runs, last, url, cli,
                   input, call, peer>>

\* PostTweetWithMediaAndReturnID with its failure only logged, like the
\* failures of the puts.
NormalPostTweetFailureLogged ==
    /\ pc = "normal_tweet"
    /\ \E ok \in BOOLEAN :
          /\ Called("postTweet", ok)
          /\ IF ok
             THEN /\ tweets' = Append(tweets, [media |-> <<mediaID>>])
                  /\ result' = [result EXCEPT !.TweetID = Len(tweets) + 1]
             ELSE UNCHANGED <<tweets, result>>
    /\ pc' = "normal_previous"
    /\ UNCHANGED <<store, now, uploads, localFiles, mode, mediaID, html,
                   store0, runs, last, url, cli,
                   input, call, peer>>

NormalPostTweet ==
    /\ pc = "normal_tweet"
    /\ \E ok \in BOOLEAN :
          /\ Called("postTweet", ok)
          /\ IF ok
             THEN /\ tweets' = Append(tweets, [media |-> <<mediaID>>])
                  /\ result' = [result EXCEPT !.TweetID = Len(tweets) + 1]
                  /\ pc' = "normal_previous"
             ELSE /\ result' = [result EXCEPT !.Error = "failed to post tweet"]
                  /\ pc' = "done"
                  /\ UNCHANGED tweets
    /\ UNCHANGED <<store, now, uploads, localFiles, mode, mediaID, html,
                   store0, runs, last, url, cli,
                   input, call, peer>>

\* The save of previousSchedule.json with the schedule that was loaded in
\* place of the one that was parsed.
NormalSavePreviousStale ==
    /\ pc = "normal_previous"
    /\ \E ok \in BOOLEAN :
          /\ Called("putPrevious", ok)
          /\ SaveSchedule(result.PreviousSchedule,
                          S3Key(result.URLIdentifier, "", PreviousScheduleFile), ok)
    /\ pc' = "normal_archive"
    /\ UNCHANGED <<now, uploads, tweets, localFiles, mode, result, mediaID, html,
                   store0, runs, last, url, cli,
                   input, call, peer>>

NormalSavePrevious ==
    /\ pc = "normal_previous"
    /\ \E ok \in BOOLEAN :
          /\ Called("putPrevious", ok)
          /\ SaveSchedule(result.CurrentSchedule,
                          S3Key(result.URLIdentifier, "", PreviousScheduleFile), ok)
    /\ pc' = "normal_archive"
    /\ UNCHANGED <<now, uploads, tweets, localFiles, mode, result, mediaID, html,
                   store0, runs, last, url, cli,
                   input, call, peer>>

NormalArchiveSchedule ==
    /\ pc = "normal_archive"
    /\ \E ok \in BOOLEAN :
          /\ Called("putArchive", ok)
          /\ SaveSchedule(result.CurrentSchedule, ArchiveKey("schedule", "json"), ok)
    /\ pc' = "done"
    /\ UNCHANGED <<now, uploads, tweets, localFiles, mode, result, mediaID, html,
                   store0, runs, last, url, cli,
                   input, call, peer>>

(***************************************************************************)
(* handleNoTweetMode.                                                      *)
(***************************************************************************)
NoTweetUploadScreenshot ==
    /\ pc = "notweet_screenshot"
    /\ \E ok \in BOOLEAN :
          /\ Called("putScreenshot", ok)
          /\ UploadFile(result.Screenshot, ArchiveKey("schedule-screenshot", "png"), ok)
    /\ pc' = "notweet_previous"
    /\ UNCHANGED <<now, uploads, tweets, localFiles, mode, result, mediaID, html,
                   store0, runs, last, url, cli,
                   input, call, peer>>

NoTweetSavePrevious ==
    /\ pc = "notweet_previous"
    /\ \E ok \in BOOLEAN :
          /\ Called("putPrevious", ok)
          /\ SaveSchedule(result.CurrentSchedule,
                          S3Key(result.URLIdentifier, "", PreviousScheduleFile), ok)
    /\ pc' = "notweet_archive"
    /\ UNCHANGED <<now, uploads, tweets, localFiles, mode, result, mediaID, html,
                   store0, runs, last, url, cli,
                   input, call, peer>>

NoTweetArchiveSchedule ==
    /\ pc = "notweet_archive"
    /\ \E ok \in BOOLEAN :
          /\ Called("putArchive", ok)
          /\ SaveSchedule(result.CurrentSchedule, ArchiveKey("schedule", "json"), ok)
    /\ pc' = "done"
    /\ UNCHANGED <<now, uploads, tweets, localFiles, mode, result, mediaID, html,
                   store0, runs, last, url, cli,
                   input, call, peer>>

(***************************************************************************)
(* Dry run: the processor's handleDryRunMode marks the result, and the    *)
(* command line's handleDryRunMode writes the screenshot, the tweet       *)
(* preview and the schedule under dry-run-output/<urlIdentifier>/.        *)
(***************************************************************************)
\* os.MkdirAll may fail, and then nothing is written; each os.WriteFile may
\* fail, which is only logged.
DryRunFiles(dirOk, written) ==
    IF dirOk
    THEN {GetTimestampedFilename(f[1], f[2], now) : f \in written}
    ELSE {}

DryRunLocal ==
    /\ pc = "dryrun"
    /\ \E dirOk \in BOOLEAN,
          written \in SUBSET {<<"schedule-screenshot", "png">>,
                              <<"tweet-preview", "html">>,
                              <<"schedule", "json">>} :
          /\ Called("writeLocalFiles", dirOk)
          /\ localFiles' = localFiles \cup DryRunFiles(dirOk, written)
    /\ result' = [result EXCEPT !.Error = "dry-run-mode"]
    /\ pc' = "done"
    /\ UNCHANGED <<store, now, uploads, tweets, mode, mediaID, html,
                   store0, runs, last, url, cli,
                   input, call, peer>>

(***************************************************************************)
(* The environment.                                                        *)
(***************************************************************************)
\* Time passes.
Tick ==
    /\ now < MaxTime
    /\ now' = now + 1
    /\ UNCHANGED <<store, uploads, tweets, localFiles, pc, mode, result, mediaID,
                   html, log, store0, runs, last, url, cli,
                   input, call, peer>>

Next ==
    \/ StartRun
    \/ VerifyCredentials
    \/ ScrapePage
    \/ LoadAndCompare
    \/ NormalUploadScreenshot
    \/ NormalUploadMedia
    \/ NormalPostTweet
    \/ NormalSavePrevious
    \/ NormalArchiveSchedule
    \/ NoTweetUploadScreenshot
    \/ NoTweetSavePrevious
    \/ NoTweetArchiveSchedule
    \/ DryRunLocal
    \/ Tick

\* Up to MaxRuns runs, one after the other.
Spec == Init /\ [][Next]_vars

\* One run of ProcessURL, from any bucket.
FirstRun ==
    /\ runs = 0
    /\ StartRun

NextRun ==
    \/ FirstRun
    \/ VerifyCredentials
    \/ ScrapePage
    \/ LoadAndCompare
    \/ NormalUploadScreenshot
    \/ NormalUploadMedia
    \/ NormalPostTweet
    \/ NormalSavePrevious
    \/ NormalArchiveSchedule
    \/ NoTweetUploadScreenshot
    \/ NoTweetSavePrevious
    \/ NoTweetArchiveSchedule
    \/ DryRunLocal
    \/ Tick

SpecRun == Init /\ [][NextRun]_vars


(***************************************************************************)
(* One invocation.  Of the command line: main loads the configuration,     *)
(* creates the S3 client, probes the bucket, and processScheduleCheck      *)
(* calls processURL for each configured URL in turn; log.Fatalf exits      *)
(* with code 1, a return from main exits with code 0.  Of the Lambda       *)
(* function: handleRequest does the same without the probe and always in   *)
(* normal mode; it answers with status code 500 or 200.                    *)
(***************************************************************************)
\* Largest number of URLs in a configuration.
MaxURLs == 2

OtherTeamURL == URL(TRUE, "https://www.brooklinebaseball.net", <<"bandits14u">>)
\* A URL of another site whose last path segment is that of MonitoredURL.
SameSegmentURL == URL(TRUE, "https://example.org", <<"teams", "bandits12u", "">>)

ConfiguredURLs == {MonitoredURL, OtherTeamURL, SameSegmentURL}

\* cfg.App.URLs: up to MaxURLs URLs, no URL twice.
Configs ==
    {c \in UNION {[1..n -> ConfiguredURLs] : n \in 0..MaxURLs} :
        \A i, j \in DOMAIN c : i # j => c[i] # c[j]}

\* The state of main, or of handleRequest, when it starts.  fatal will name
\* the step that ended the invocation early, exit its exit or status code.
Invoked(entry, dryRun, noTweet) ==
    [entry |-> entry, phase |-> "config", dryRun |-> dryRun, noTweet |-> noTweet,
     urls |-> << >>, next |-> 1, processed |-> << >>, fatal |-> "", exit |-> -1]

\* log.Fatalf in main; return Response{StatusCode: 500}, err in handleRequest.
Fatal(step) ==
    [cli EXCEPT !.phase = "exited", !.fatal = step,
                !.exit = IF cli.entry = "lambda" THEN 500 ELSE 1]

InitCLI ==
    /\ store \in {<< >>, [k \in {PreviousKey} |-> SerializeSchedule(ParseSchedule(PageA))]}
    /\ now = 0
    /\ uploads = 0
    /\ tweets = << >>
    /\ localFiles = {}
    /\ pc = "idle"
    /\ mode = ModeNormal
    /\ result = NewResult
    /\ mediaID = 0
    /\ html = << >>
    /\ log = << >>
    /\ store0 = store
    /\ runs = 0
    /\ last = NoRun
    /\ url = MonitoredURL
    /\ \/ \E dryRun \in BOOLEAN, noTweet \in BOOLEAN :
              cli = Invoked("cli", dryRun, noTweet)
       \/ cli = Invoked("lambda", FALSE, FALSE)
    /\ input = NoInput
    /\ call = NoCall
    /\ peer = NoPeer

\* config.LoadConfig
LoadConfig ==
    /\ cli.phase = "config"
    /\ \E ok \in BOOLEAN, cfg \in Configs :
          cli' = IF ok THEN [cli EXCEPT !.phase = "client", !.urls = cfg]
                 ELSE Fatal("config")
    /\ UNCHANGED <<store, now, uploads, tweets, localFiles, pc, mode, result, mediaID,
                   html, log, store0, runs, last, url,
                   input, call, peer>>

\* storage.NewS3Client
NewS3Client ==
    /\ cli.phase = "client"
    /\ \E ok \in BOOLEAN :
          cli' = IF ~ok THEN Fatal("client")
                 ELSE IF cli.entry = "lambda" THEN [cli EXCEPT !.phase = "urls"]
                 ELSE [cli EXCEPT !.phase = "probe"]
    /\ UNCHANGED <<store, now, uploads, tweets, localFiles, pc, mode, result, mediaID,
                   html, log, store0, runs, last, url,
                   input, call, peer>>

\* s3Client.FileExists("__credential_test__"): a missing object is no error.
VerifyS3Access ==
    /\ cli.phase = "probe"
    /\ \E ok \in BOOLEAN :
          cli' = IF ok THEN [cli EXCEPT !.phase = "urls"] ELSE Fatal("probe")
    /\ UNCHANGED <<store, now, uploads, tweets, localFiles, pc, mode, result, mediaID,
                   html, log, store0, runs, last, url,
                   input, call, peer>>

\* The loop over the URLs taking the last URL first.
ProcessURLCallLastFirst ==
    /\ cli.phase = "urls"
    /\ pc = "idle"
    /\ cli.next <= Len(cli.urls)
    /\ url' = cli.urls[Len(cli.urls) + 1 - cli.next]
    /\ mode' = ModeOf(cli.dryRun, cli.noTweet)
    /\ runs' = runs + 1
    /\ result' = NewResult
    /\ mediaID' = 0
    /\ html' = << >>
    /\ log' = << >>
    /\ store0' = store
    /\ pc' = "verify"
    /\ UNCHANGED <<store, now, uploads, tweets, localFiles, last, cli,
                   input, call, peer>>

\* processScheduleCheck calls processURL for the next URL, which picks the
\* mode and calls ProcessURL; the Lambda function's processURL always picks
\* ModeNormal.
ProcessURLCall ==
    /\ cli.phase = "urls"
    /\ pc = "idle"
    /\ cli.next <= Len(cli.urls)
    /\ url' = cli.urls[cli.next]
    /\ mode' = ModeOf(cli.dryRun, cli.noTweet)
    /\ runs' = runs + 1
    /\ result' = NewResult
    /\ mediaID' = 0
    /\ html' = << >>
    /\ log' = << >>
    /\ store0' = store
    /\ pc' = "verify"
    /\ UNCHANGED <<store, now, uploads, tweets, localFiles, last, cli,
                   input, call, peer>>

\* The error processURL returns: that of handleDryRunMode in a dry run that
\* found changes, and otherwise one for every result.Error that is not empty.
ProcessURLError ==
    IF result.Error = "dry-run-mode" /\ result.ChangesFound
    THEN ~log[Len(log)].ok
    ELSE result.Error # ""

\* The loop over the URLs with the error of processURL made fatal.
ProcessURLReturnFatal ==
    /\ cli.phase = "urls"
    /\ pc = "done"
    /\ cli' = IF ProcessURLError
              THEN [Fatal("url") EXCEPT
                       !.processed = Append(@, [url |-> url, failed |-> TRUE])]
              ELSE [cli EXCEPT !.next = @ + 1,
                               !.processed = Append(@, [url |-> url, failed |-> FALSE])]
    /\ pc' = "idle"
    /\ UNCHANGED <<store, now, uploads, tweets, localFiles, mode, result, mediaID,
                   html, log, store0, runs, last, url,
                   input, call, peer>>

\* processURL returns; the loop logs its error, if any, and continues with
\* the next URL.
ProcessURLReturn ==
    /\ cli.phase = "urls"
    /\ pc = "done"
    /\ cli' = [cli EXCEPT !.next = @ + 1,
                          !.processed = Append(@, [url |-> url,
                                                   failed |-> ProcessURLError])]
    /\ pc' = "idle"
    /\ UNCHANGED <<store, now, uploads, tweets, localFiles, mode, result, mediaID,
                   html, log, store0, runs, last, url,
                   input, call, peer>>

\* processScheduleCheck returns nil and main returns; handleRequest returns
\* Response{StatusCode: 200}.
ExitSuccess ==
    /\ cli.phase = "urls"
    /\ pc = "idle"
    /\ cli.next > Len(cli.urls)
    /\ cli' = [cli EXCEPT !.phase = "exited",
                          !.exit = IF cli.entry = "lambda" THEN 200 ELSE 0]
    /\ UNCHANGED <<store, now, uploads, tweets, localFiles, pc, mode, result, mediaID,
                   html, log, store0, runs, last, url,
                   input, call, peer>>

NextCLI ==
    \/ LoadConfig
    \/ NewS3Client
    \/ VerifyS3Access
    \/ ProcessURLCall
    \/ ProcessURLReturn
    \/ ExitSuccess
    \/ VerifyCredentials
    \/ ScrapePage
    \/ LoadAndCompare
    \/ NormalUploadScreenshot
    \/ NormalUploadMedia
    \/ NormalPostTweet
    \/ NormalSavePrevious
    \/ NormalArchiveSchedule
    \/ NoTweetUploadScreenshot
    \/ NoTweetSavePrevious
    \/ NoTweetArchiveSchedule
    \/ DryRunLocal
    \/ Tick

SpecCLI == InitCLI /\ [][NextCLI]_vars

(***************************************************************************)
(* The functions of package schedule on their own: CompareSchedules,       *)
(* SerializeSchedule, DeserializeSchedule and LoadSchedule, applied to     *)
(* schedules over the keys of KeyOrder whose entries vary in every field   *)
(* that is not part of the key.                                            *)
(***************************************************************************)
Purposes == {"", "Practice"}
Locations == {"Warren", "BTC"}
TimeBlocks == {"4:45-6:45", "4:30-6:30"}
\* nil, or a time that still carries the monotonic reading of time.Now().
ParsedTimes == {NoTime, Time(1, TRUE)}

\* The entry under key with the given purpose, location, timeBlock, parsedTime.
EntryAt(key, v) ==
    [ScheduleEntry(IF Len(key) = 2 THEN key[1] ELSE "", key[Len(key)],
                   v[1], v[2], v[3])
        EXCEPT !.parsedTime = v[4]]

ScheduleInputs ==
    UNION {{[k \in keys |-> EntryAt(k, f[k])] :
               f \in [keys -> Purposes \X Locations \X TimeBlocks \X ParsedTimes]} :
           keys \in SUBSET {KeyOrder[i] : i \in DOMAIN KeyOrder}}

\* Any two schedules, nil maps included; the bucket is empty or holds the
\* first of them, if it is a map, as previousSchedule.json.
InitSchedule ==
    /\ input \in [old : ScheduleInputs \cup {NilSchedule},
                  new : ScheduleInputs \cup {NilSchedule}]
    /\ call = NoCall
    /\ peer = NoPeer
    /\ store \in {<< >>} \cup
                 {[k \in {PreviousKey} |-> SerializeSchedule(s)] :
                      s \in {input.old} \ {NilSchedule}}
    /\ now = 0
    /\ uploads = 0
    /\ tweets = << >>
    /\ localFiles = {}
    /\ pc = "idle"
    /\ mode = ModeNormal
    /\ result = NewResult
    /\ mediaID = 0
    /\ html = << >>
    /\ log = << >>
    /\ store0 = store
    /\ runs = 0
    /\ last = NoRun
    /\ url = MonitoredURL
    /\ cli = NoInvocation

\* diff := CompareSchedules(old, new)
ApplyCompareSchedules ==
    /\ call.op = "none"
    /\ call' = [op |-> "CompareSchedules",
                diff |-> CompareSchedules(input.old, input.new)]
    /\ UNCHANGED <<store, now, uploads, tweets, localFiles, pc, mode, result,
                   mediaID, html, log, store0, runs, last, url, cli, input, peer>>

\* data, _ := SerializeSchedule(new)
ApplySerializeSchedule ==
    /\ call.op = "none"
    /\ call' = [op |-> "SerializeSchedule", data |-> SerializeSchedule(input.new)]
    /\ UNCHANGED <<store, now, uploads, tweets, localFiles, pc, mode, result,
                   mediaID, html, log, store0, runs, last, url, cli, input, peer>>

\* schedule, err := DeserializeSchedule(data), on the bytes just serialized
ApplyDeserializeSchedule ==
    /\ call.op = "SerializeSchedule"
    /\ call' = [op |-> "DeserializeSchedule",
                schedule |-> DeserializeSchedule(call.data), err |-> FALSE]
    /\ UNCHANGED <<store, now, uploads, tweets, localFiles, pc, mode, result,
                   mediaID, html, log, store0, runs, last, url, cli, input, peer>>

\* schedule, err := LoadSchedule(s3Client, urlIdentifier, "previousSchedule.json");
\* ok: the bucket answers (with the object, or that there is no such key).
ApplyLoadSchedule ==
    /\ call.op = "none"
    /\ \E ok \in BOOLEAN :
          LET got == LoadSchedule(PreviousKey, ok)
          IN  call' = [op |-> "LoadSchedule", ok |-> ok,
                       schedule |-> got.schedule, err |-> got.err]
    /\ UNCHANGED <<store, now, uploads, tweets, localFiles, pc, mode, result,
                   mediaID, html, log, store0, runs, last, url, cli, input, peer>>

NextSchedule ==
    \/ ApplyCompareSchedules
    \/ ApplySerializeSchedule
    \/ ApplyDeserializeSchedule
    \/ ApplyLoadSchedule

SpecSchedule == InitSchedule /\ [][NextSchedule]_vars

(***************************************************************************)
(* SanitizeText and ParseSchedule on their own: SanitizeText applied to    *)
(* every short text, ParseSchedule to a document and to the same document  *)
(* with one element's text changed in its zero-width characters, dashes   *)
(* or outer white space only.                                              *)
(***************************************************************************)
\* Longest text given to SanitizeText.
MaxTextLen == 3
\* Largest number of elements in a document.
MaxElements == 3

SanitizeChars == ZeroWidth \cup Dashes \cup {" ", "Warren"}

Texts == UNION {[1..n -> SanitizeChars] : n \in 0..MaxTextLen}

DateHeader(dow, dom) == <<dow, ",", " ", dom>>

\* The texts of the elements of the monitored page, and two rows of the
\* short form for one date.
ElementTexts ==
    {DateHeader("TUESDAY", "10/3"), DateHeader("SATURDAY", "10/7"),
     <<"Practice", ",", " ", "Warren", ",", " ", "4:45", EnDash, "6:45">>,
     <<"Late", ":", " ", "Aiden", ",", " ", "Zach">>,
     <<"Practice is canceled">>,
     <<"11/19", " ", ":", " ", "BTC", ",", " ", "6:00", Hyphen, "7:30">>,
     <<"11/19", ":", " ", "Warren", ",", " ", "4:30">>}

Documents == UNION {[1..n -> ElementTexts] : n \in 0..MaxElements}

\* text with other dashes, with a zero-width character or a space put before
\* or after it, or with a zero-width character put inside it.
Variants(text) ==
    {[i \in DOMAIN text |-> IF text[i] \in Dashes THEN d ELSE text[i]] : d \in Dashes}
    \cup {<<c>> \o text : c \in ZeroWidth \cup {" "}}
    \cup {text \o <<c>> : c \in ZeroWidth \cup {" "}}
    \cup {SubSeq(text, 1, k) \o <<c>> \o SubSeq(text, k + 1, Len(text)) :
              c \in ZeroWidth, k \in 1..(Len(text) - 1)}

\* The captures that differ from doc in one element's text, by a variant.
Recaptures(doc) ==
    {doc} \cup UNION {{[doc EXCEPT ![i] = v] : v \in Variants(doc[i])} :
                          i \in DOMAIN doc}

InitParse ==
    /\ input \in {[text |-> t] : t \in Texts}
                 \cup UNION {{[c1 |-> d, c2 |-> e] : e \in Recaptures(d)} :
                                 d \in Documents}
    /\ call = NoCall
    /\ peer = NoPeer
    /\ store = << >>
    /\ now = 0
    /\ uploads = 0
    /\ tweets = << >>
    /\ localFiles = {}
    /\ pc = "idle"
    /\ mode = ModeNormal
    /\ result = NewResult
    /\ mediaID = 0
    /\ html = << >>
    /\ log = << >>
    /\ store0 = store
    /\ runs = 0
    /\ last = NoRun
    /\ url = MonitoredURL
    /\ cli = NoInvocation

\* SanitizeText(text)
ApplySanitizeText ==
    /\ call.op = "none"
    /\ "text" \in DOMAIN input
    /\ call' = [op |-> "SanitizeText", text |-> input.text,
                sanitized |-> SanitizeText(input.text)]
    /\ UNCHANGED <<store, now, uploads, tweets, localFiles, pc, mode, result,
                   mediaID, html, log, store0, runs, last, url, cli, input, peer>>

\* SanitizeText of what SanitizeText returned
ApplySanitizeTextAgain ==
    /\ call.op = "SanitizeText"
    /\ call' = [op |-> "SanitizeTextAgain", text |-> call.sanitized,
                sanitized |-> SanitizeText(call.sanitized)]
    /\ UNCHANGED <<store, now, uploads, tweets, localFiles, pc, mode, result,
                   mediaID, html, log, store0, runs, last, url, cli, input, peer>>

\* ParseSchedule of the two captures; it logs nothing.
ApplyParseSchedule ==
    /\ call.op = "none"
    /\ "c1" \in DOMAIN input
    /\ call' = [op |-> "ParseSchedule",
                s1 |-> ParseDocument(input.c1), s2 |-> ParseDocument(input.c2),
                logged |-> << >>]
    /\ UNCHANGED <<store, now, uploads, tweets, localFiles, pc, mode, result,
                   mediaID, html, log, store0, runs, last, url, cli, input, peer>>

NextParse ==
    \/ ApplySanitizeText
    \/ ApplySanitizeTextAgain
    \/ ApplyParseSchedule

SpecParse == InitParse /\ [][NextParse]_vars

(***************************************************************************)
(* GetURLIdentifier on its own, applied to a URL and to the same URL with  *)
(* a slash added at its end.                                               *)
(***************************************************************************)
\* Largest number of segments in the path of a URL.
MaxSegments == 3

PathSegments == {"", "teams", "bandits12u"}

\* URLs that url.Parse accepts and URLs that it rejects (for instance for a
\* "%" that starts no escape), with any path.
URLInputs ==
    {URL(parses, origin, path) :
        parses \in BOOLEAN,
        origin \in {"https://www.brooklinebaseball.net", "https://example.org"},
        path \in UNION {[1..n -> PathSegments] : n \in 0..MaxSegments}}

\* urlStr + "/"
WithSlash(u) == [u EXCEPT !.path = Append(u.path, "")]

InitURL ==
    /\ input \in [url : URLInputs, isTest : BOOLEAN]
    /\ call = NoCall
    /\ peer = NoPeer
    /\ store = << >>
    /\ now = 0
    /\ uploads = 0
    /\ tweets = << >>
    /\ localFiles = {}
    /\ pc = "idle"
    /\ mode = ModeNormal
    /\ result = NewResult
    /\ mediaID = 0
    /\ html = << >>
    /\ log = << >>
    /\ store0 = store
    /\ runs = 0
    /\ last = NoRun
    /\ url = MonitoredURL
    /\ cli = NoInvocation

\* GetURLIdentifier(urlStr, isTest), and of urlStr + "/"
ApplyGetURLIdentifier ==
    /\ call.op = "none"
    /\ call' = [op |-> "GetURLIdentifier",
                identifier |-> GetURLIdentifier(input.url, input.isTest),
                withSlash |-> GetURLIdentifier(WithSlash(input.url), input.isTest)]
    /\ UNCHANGED <<store, now, uploads, tweets, localFiles, pc, mode, result,
                   mediaID, html, log, store0, runs, last, url, cli, input, peer>>

\* The same call once more: a second GetURLIdentifier(urlStr, isTest).
ApplyGetURLIdentifierAgain ==
    /\ call.op = "GetURLIdentifier"
    /\ call' = [op |-> "GetURLIdentifierAgain",
                identifier |-> GetURLIdentifier(input.url, input.isTest),
                withSlash |-> call.withSlash,
                before |-> call.identifier]
    /\ UNCHANGED <<store, now, uploads, tweets, localFiles, pc, mode, result,
                   mediaID, html, log, store0, runs, last, url, cli, input, peer>>

NextURL ==
    \/ ApplyGetURLIdentifier
    \/ ApplyGetURLIdentifierAgain

SpecURL == InitURL /\ [][NextURL]_vars

(***************************************************************************)
(* Two runs of ProcessURL at once, for the same URL: two invocations of    *)
(* the program overlap.  Each run has its own locals; the bucket, Twitter  *)
(* and the clock are shared.  One run takes a step while the other waits   *)
(* in `peer`; a step is one outside call with what ProcessURL does on its  *)
(* return.                                                                 *)
(***************************************************************************)
\* The locals of the current run.
Context ==
    [pc |-> pc, mode |-> mode, result |-> result, mediaID |-> mediaID,
     html |-> html, log |-> log]

\* Both invocations have entered ProcessURL in normal mode; neither has made
\* a call yet.
InitConcurrent ==
    /\ store \in {<< >>} \cup
                 {[k \in {PreviousKey} |-> SerializeSchedule(s)] : s \in Schedules}
    /\ now = 0
    /\ uploads = 0
    /\ tweets = << >>
    /\ localFiles = {}
    /\ pc = "verify"
    /\ mode = ModeNormal
    /\ result = NewResult
    /\ mediaID = 0
    /\ html = << >>
    /\ log = << >>
    /\ store0 = store
    /\ runs = 2
    /\ last = NoRun
    /\ url = MonitoredURL
    /\ cli = NoInvocation
    /\ input = NoInput
    /\ call = NoCall
    /\ peer = Context

\* The other run takes the next steps; the current one waits where it is.
Switch ==
    /\ peer.pc \notin {"none", "done"}
    /\ peer' = Context
    /\ pc' = peer.pc
    /\ mode' = peer.mode
    /\ result' = peer.result
    /\ mediaID' = peer.mediaID
    /\ html' = peer.html
    /\ log' = peer.log
    /\ UNCHANGED <<store, now, uploads, tweets, localFiles, store0, runs, last,
                   url, cli, input, call>>

NextConcurrent ==
    \/ VerifyCredentials
    \/ ScrapePage
    \/ LoadAndCompare
    \/ NormalUploadScreenshot
    \/ NormalUploadMedia
    \/ NormalPostTweet
    \/ NormalSavePrevious
    \/ NormalArchiveSchedule
    \/ Switch
    \/ Tick

SpecConcurrent == InitConcurrent /\ [][NextConcurrent]_vars

(***************************************************************************)
(* Normal runs that keep coming, one after the other, each one returning   *)
(* before the next starts, on a page that stays as it is.  The scheduler   *)
(* keeps starting the program and a started run keeps taking its steps:    *)
(* weak fairness of the next step.                                         *)
(***************************************************************************)
\* The page that stays, and its schedule.
FixedPage == PageA
FixedSchedule == ParseSchedule(FixedPage)

\* Any bucket whose previous schedule is not the one of the page.
InitLive ==
    /\ Init
    /\ PreviousKey \in DOMAIN store =>
           store[PreviousKey] # SerializeSchedule(FixedSchedule)

\* The scheduler starts a normal run once the run before has returned.
StartNormalRun ==
    /\ pc \in {"idle", "done"}
    /\ StartRun
    /\ mode' = ModeNormal

\* ScrapePage, which finds the page as it was.
ScrapeFixedPage ==
    /\ ScrapePage
    /\ pc' = "load" => html' = FixedPage

NextLive ==
    \/ StartNormalRun
    \/ VerifyCredentials
    \/ ScrapeFixedPage
    \/ LoadAndCompare
    \/ NormalUploadScreenshot
    \/ NormalUploadMedia
    \/ NormalPostTweet
    \/ NormalSavePrevious
    \/ NormalArchiveSchedule
    \/ Tick

SpecLive == InitLive /\ [][NextLive]_vars /\ WF_vars(NextLive)

(***************************************************************************)
(* Reading the history of a run.                                           *)
(***************************************************************************)
PutOps == {"putScreenshot", "putPrevious", "putArchive"}
PublishOps == {"uploadMedia", "postTweet"}

\* The side effects of the run so far, in order: the puts and the uploadMedia
\* and post calls it made, whether they succeeded or not.
SideEffects == SelectSeq(log, LAMBDA c : c.op \in PutOps \cup PublishOps)

Ops(calls) == [i \in DOMAIN calls |-> calls[i].op]

HasCalled(op) == \E i \in DOMAIN log : log[i].op = op

Succeeded(op) == \E i \in DOMAIN log : log[i].op = op /\ log[i].ok

AllSucceeded == \A i \in DOMAIN log : log[i].ok

\* The run has compared the previous schedule with the current one.
Compared == HasCalled("downloadPrevious")

\* The diff the run computed.
RunDiff == CompareSchedules(result.PreviousSchedule, result.CurrentSchedule)

(***************************************************************************)
(* C1.  As claimed: every put of previousSchedule.json of a run comes     *)
(* after a post of the same run that succeeded; a run that does not call  *)
(* post puts no previousSchedule.json, in any mode.                       *)
(***************************************************************************)
PutPreviousFollowsPost ==
    \A i \in DOMAIN log :
        log[i].op = "putPrevious" =>
            \E j \in 1..(i - 1) : log[j].op = "postTweet" /\ log[j].ok

C1_Original == PutPreviousFollowsPost

\* C1, as amended: in a run in normal or dry-run mode every put of
\* previousSchedule.json comes after a post of the same run that succeeded,
\* so a run of these modes that does not call post puts none; a run in
\* no-tweet mode never calls post, and puts previousSchedule.json when it
\* finds changes.
C1_CommitFollowsPost ==
    /\ mode # ModeNoTweet => PutPreviousFollowsPost
    /\ mode = ModeNoTweet =>
          /\ ~HasCalled("postTweet")
          /\ (pc = "done" /\ result.ChangesFound => HasCalled("putPrevious"))

C1_Witness ==
    /\ mode = ModeNormal
    /\ pc = "done"
    /\ Succeeded("postTweet")
    /\ Succeeded("putPrevious")
    /\ store[PreviousKey] # << >>

(***************************************************************************)
(* C2.  As claimed: a normal run that finds changes and in which every    *)
(* call succeeds makes its side effects in the order screenshot, archived *)
(* schedule, uploadMedia, post, previousSchedule.json.                    *)
(***************************************************************************)
NormalRunSucceeded ==
    /\ mode = ModeNormal
    /\ pc = "done"
    /\ result.ChangesFound
    /\ AllSucceeded

NoDifference ==
    /\ DOMAIN RunDiff.Added = {}
    /\ DOMAIN RunDiff.Deleted = {}
    /\ DOMAIN RunDiff.Modified = {}

ReadFailed == \E i \in DOMAIN log : log[i].op = "downloadPrevious" /\ ~log[i].ok

C7_Original ==
    \A i \in DOMAIN log :
        log[i].op = "downloadPrevious" /\ ~log[i].ok =>
            /\ i = Len(log)
            /\ pc = "done"
            /\ result.Error # ""

\* What the code does instead: the failed read is taken for a first run, the
\* whole page is posted as new and the stored schedule is overwritten.
C7_ReadFailurePosted ==
    /\ mode = ModeNormal
    /\ ReadFailed
    /\ PreviousKey \in DOMAIN store0
    /\ DeserializeSchedule(store0[PreviousKey]) = result.CurrentSchedule
    /\ result.PreviousSchedule = EmptySchedule
    /\ Succeeded("postTweet")
    /\ pc = "done"
    /\ result.Error = ""

(***************************************************************************)
(* C8.  As claimed: a run in which a put fails ends as failed and makes no *)
(* side effect after the failed put.                                       *)
(***************************************************************************)
PutFailedAt(i) == log[i].op \in PutOps /\ ~log[i].ok

C8_Original ==
    \A i \in DOMAIN log :
        PutFailedAt(i) =>
            /\ i = Len(log)
            /\ pc = "done"
            /\ result.Error # ""

\* The side effects of a whole run of the mode's handler.
HandlerEffects ==
    IF mode = ModeNormal
    THEN <<"putScreenshot", "uploadMedia", "postTweet", "putPrevious", "putArchive">>
    ELSE <<"putScreenshot", "putPrevious", "putArchive">>

\* C8, as amended: a failed put is a warning.  The run goes on with the step
\* that follows the put; it is marked failed only if a later uploadMedia or
\* post fails, and otherwise ends without error having attempted every side
\* effect of its handler.
C8_PutFailureIsWarning ==
    \A i \in DOMAIN log :
        PutFailedAt(i) =>
            /\ result.Error # "" =>
                   \E j \in (i + 1)..Len(log) :
                       log[j].op \in PublishOps /\ ~log[j].ok
            /\ pc = "done" /\ result.Error = "" =>
                   Ops(SideEffects) = HandlerEffects
            /\ i = Len(log) =>
                   pc = CASE log[i].op = "putScreenshot" ->
                                 IF mode = ModeNormal THEN "normal_media"
                                 ELSE "notweet_previous"
                          [] log[i].op = "putPrevious" ->
                                 IF mode = ModeNormal THEN "normal_archive"
                                 ELSE "notweet_archive"
                          [] log[i].op = "putArchive" -> "done"

\* The screenshot could not be archived, and the run still posted and ended
\* without error.
C8_Witness ==
    /\ mode = ModeNormal
    /\ pc = "done"
    /\ \E i \in DOMAIN log : log[i].op = "putScreenshot" /\ ~log[i].ok
    /\ Succeeded("postTweet")
    /\ Succeeded("putPrevious")
    /\ result.Error = ""

(***************************************************************************)
(* C9.  As claimed: a run in no-tweet mode makes no call to Twitter at     *)
(* all, the verification of the credentials included.                      *)
(***************************************************************************)
TwitterOps == {"verifyCredentials", "uploadMedia", "postTweet"}

C9_Original ==
    mode = ModeNoTweet => \A i \in DOMAIN log : log[i].op \notin TwitterOps

PutsAttempted == SelectSeq(log, LAMBDA c : c.op \in PutOps)

ArchivedAt(base, extension) ==
    \E t \in 0..now :
        S3Key(URLIdentifier, "archive", GetTimestampedFilename(base, extension, t))
            \in DOMAIN store

\* C9, as amended: a run in no-tweet mode verifies the credentials first,
\* like a run of any mode, and never calls uploadMedia or post; when it finds
\* changes it puts the screenshot, previousSchedule.json and the archived
\* schedule, in this order.
C9_NoTweetRun ==
    mode = ModeNoTweet =>
        /\ ~HasCalled("uploadMedia")
        /\ ~HasCalled("postTweet")
        /\ log # << >> => log[1].op = "verifyCredentials"
        /\ pc = "done" /\ result.ChangesFound =>
              /\ Ops(PutsAttempted) = <<"putScreenshot", "putPrevious", "putArchive">>
              /\ AllSucceeded =>
                    /\ ArchivedAt("schedule-screenshot", "png")
                    /\ ArchivedAt("schedule", "json")
                    /\ store[PreviousKey] = SerializeSchedule(result.CurrentSchedule)

C9_Witness ==
    /\ mode = ModeNoTweet
    /\ pc = "done"
    /\ result.ChangesFound
    /\ AllSucceeded
    /\ log[1].op = "verifyCredentials"
    /\ Cardinality(DOMAIN store) = 3

(***************************************************************************)
(* Reading the history of two runs: the current one and the one before.   *)
(***************************************************************************)
\* The bytes of previousSchedule.json in a bucket (<< >>: no object; the
\* serialized empty schedule is << >> too, and both load as the empty one).
PreviousBlob(bucket) ==
    IF PreviousKey \in DOMAIN bucket THEN bucket[PreviousKey] ELSE << >>

\* The diff the run before computed.
LastDiff == CompareSchedules(last.PreviousSchedule, last.CurrentSchedule)

\* The current run is a normal one that scraped the page the run before
\* scraped, and it has compared it with the previous schedule.
NormalAgainOnSamePage ==
    /\ mode = ModeNormal
    /\ html = last.html
    /\ Compared

PublishFailedIn(calls) ==
    \E i \in DOMAIN calls : calls[i].op \in PublishOps /\ ~calls[i].ok

(***************************************************************************)
(* C4.  As claimed: a normal run in which uploadMedia or post fails ends   *)
(* as failed with previousSchedule.json as it was, and the next run, on    *)
(* the same page, finds the same changes and calls uploadMedia again.      *)
(***************************************************************************)
LastPublishFailed ==
    /\ last.ran
    /\ last.mode = ModeNormal
    /\ last.pc = "done"
    /\ PublishFailedIn(last.log)

C4_Original ==
    /\ mode = ModeNormal /\ PublishFailedIn(log) =>
          /\ pc = "done"
          /\ result.Error # ""
          /\ PreviousBlob(store) = PreviousBlob(store0)
    /\ LastPublishFailed /\ NormalAgainOnSamePage =>
          /\ RunDiff = LastDiff
          /\ result.ChangesFound
          /\ pc = "done" => HasCalled("uploadMedia")

(***************************************************************************)
(* C5.  As claimed: when a normal run that found changes is killed after   *)
(* its put of the screenshot and before its put of previousSchedule.json   *)
(* has completed, the next run, on the same page, computes the same        *)
(* non-empty diff and calls post again.                                    *)
(***************************************************************************)
LastKilledBeforeCommit ==
    /\ last.ran
    /\ last.mode = ModeNormal
    /\ last.ChangesFound
    /\ last.pc \in {"normal_media", "normal_tweet", "normal_previous"}

C5_Original ==
    LastKilledBeforeCommit /\ NormalAgainOnSamePage =>
        /\ RunDiff = LastDiff
        /\ HasChanges(RunDiff)
        /\ result.ChangesFound
        /\ pc = "done" =>
              /\ HasCalled("uploadMedia")
              /\ Succeeded("uploadMedia") => HasCalled("postTweet")

(***************************************************************************)
(* C6.  As claimed: after a normal run that posted, the next run, on the   *)
(* same page, finds no changes, calls no post and writes no archive blob.  *)
(***************************************************************************)
LastPosted ==
    /\ last.ran
    /\ last.mode = ModeNormal
    /\ \E i \in DOMAIN last.log : last.log[i].op = "postTweet" /\ last.log[i].ok

C6_Original ==
    LastPosted /\ html = last.html /\ Compared =>
        /\ ~result.ChangesFound
        /\ ~HasCalled("postTweet")
        /\ ~HasCalled("putScreenshot")
        /\ ~HasCalled("putArchive")

(***************************************************************************)
(* C10.  A run in dry-run mode makes no put and no uploadMedia or post     *)
(* call (the processor never deletes an object, in any mode), so the       *)
(* bucket, previousSchedule.json included, is as it was when the run       *)
(* started; and a normal run that follows a dry run on the same page,      *)
(* when that page differs from the stored schedule and every call of the   *)
(* normal run succeeds, finds the changes and posts.                       *)
(***************************************************************************)
\* The schedule stored when the current run started.
StoredSchedule == DeserializeSchedule(PreviousBlob(store0))

LastWasDryRun ==
    /\ last.ran
    /\ last.mode = ModeDryRun
    /\ last.pc = "done"

C10_DryRunLeavesNoTrace ==
    /\ mode = ModeDryRun =>
          /\ SideEffects = << >>
          /\ store = store0
    /\ ( /\ LastWasDryRun
         /\ NormalAgainOnSamePage
         /\ HasChanges(CompareSchedules(StoredSchedule, ParseSchedule(html)))
         /\ pc = "done"
         /\ AllSucceeded )
       => /\ result.ChangesFound
          /\ RunDiff = CompareSchedules(StoredSchedule, ParseSchedule(html))
          /\ Succeeded("postTweet")
          /\ Len(tweets) > 0

\* A dry run found changes and wrote its local files; the normal run after
\* it, on the same page, posted them.
C10_Witness ==
    /\ LastWasDryRun
    /\ last.ChangesFound
    /\ localFiles # {}
    /\ NormalAgainOnSamePage
    /\ pc = "done"
    /\ AllSucceeded
    /\ Succeeded("postTweet")
    /\ RunDiff = LastDiff

(***************************************************************************)
(* C11.  From a bucket without previousSchedule.json, a normal run that    *)
(* parses a non-empty schedule S and whose calls all succeed finds all of  *)
(* S added and ends with one screenshot and one schedule under             *)
(* <id>/archive/, one tweet posted, and previousSchedule.json              *)
(* deserializing to S.                                                     *)
(***************************************************************************)
\* The objects of the bucket under <id>/archive/ whose name starts with base.
Archived(base) ==
    {k \in DOMAIN store :
        k.prefix = URLIdentifier /\ k.folder = "archive" /\ k.file.base = base}

PostsMade == SelectSeq(log, LAMBDA c : c.op = "postTweet" /\ c.ok)

FirstNormalRunSucceeded ==
    /\ store0 = << >>
    /\ NormalRunSucceeded
    /\ Compared

C11_FirstRun ==
    FirstNormalRunSucceeded /\ result.CurrentSchedule # EmptySchedule =>
        /\ RunDiff.Added = result.CurrentSchedule
        /\ DOMAIN RunDiff.Deleted = {} /\ DOMAIN RunDiff.Modified = {}
        /\ Cardinality(Archived("schedule-screenshot")) = 1
        /\ Cardinality(Archived("schedule")) = 1
        /\ \A k \in Archived("schedule-screenshot") : store[k] = result.Screenshot
        /\ \A k \in Archived("schedule") :
               DeserializeSchedule(store[k]) = result.CurrentSchedule
        /\ Len(PostsMade) = 1
        /\ Len(tweets) = 1
        /\ PreviousKey \in DOMAIN store
        /\ DeserializeSchedule(store[PreviousKey]) = result.CurrentSchedule

\* Such a run on the page with two entries.
C11_Witness ==
    /\ FirstNormalRunSucceeded
    /\ Cardinality(DOMAIN result.CurrentSchedule) = 2
    /\ DOMAIN store = Archived("schedule-screenshot") \cup Archived("schedule")
                          \cup {PreviousKey}

(***************************************************************************)
(* Reading the history of an invocation.                                   *)
(***************************************************************************)
\* A run of ProcessURL for url is under way or has just returned.
Running == cli.phase = "urls" /\ pc # "idle"

Range(seq) == {seq[i] : i \in DOMAIN seq}

\* The key of the previous schedule of URL u.
PreviousKeyOf(u) == S3Key(GetURLIdentifier(u, FALSE), "", PreviousScheduleFile)

\* The object at a key of a bucket: << >> when there is none.
BlobAt(bucket, key) == IF key \in DOMAIN bucket THEN <<bucket[key]>> ELSE << >>

\* The keys the current run has read, and those it has put or changed.
KeysRead ==
    IF Compared THEN {S3Key(result.URLIdentifier, "", PreviousScheduleFile)} ELSE {}

KeysWritten ==
    {k \in DOMAIN store : BlobAt(store, k) # BlobAt(store0, k)}
        \cup (IF HasCalled("putPrevious")
              THEN {S3Key(result.URLIdentifier, "", PreviousScheduleFile)} ELSE {})

(***************************************************************************)
(* C12.  As claimed: a run for a configured URL neither reads nor writes   *)
(* the previous schedule of any other configured URL.                      *)
(***************************************************************************)
C12_Original ==
    Running =>
        \A other \in Range(cli.urls) :
            other # url => PreviousKeyOf(other) \notin KeysRead \cup KeysWritten

\* C12, as amended: a run for a configured URL reads and writes only keys
\* under the URL's identifier, its last path segment that is not empty, and
\* the previous schedule it compares with is the one stored under that
\* identifier; so it neither reads nor writes the previous schedule of a
\* configured URL with another identifier.  URLs with the same last segment
\* share one previous schedule.
C12_IndependentPerIdentifier ==
    Running =>
        /\ \A k \in KeysRead \cup KeysWritten : k.prefix = GetURLIdentifier(url, FALSE)
        /\ Compared /\ ~ReadFailed =>
              result.PreviousSchedule =
                  DeserializeSchedule(IF PreviousKeyOf(url) \in DOMAIN store0
                                      THEN store0[PreviousKeyOf(url)] ELSE << >>)
        /\ \A other \in Range(cli.urls) :
              GetURLIdentifier(other, FALSE) # GetURLIdentifier(url, FALSE) =>
                  /\ PreviousKeyOf(other) \notin KeysRead \cup KeysWritten
                  /\ BlobAt(store, PreviousKeyOf(other)) = BlobAt(store0, PreviousKeyOf(other))

\* The run for the other team's page committed its schedule next to the
\* stored schedule of the monitored page, which differs from it.
C12_Witness ==
    /\ Running
    /\ pc = "done"
    /\ url = OtherTeamURL
    /\ MonitoredURL \in Range(cli.urls)
    /\ Succeeded("putPrevious")
    /\ PreviousKeyOf(MonitoredURL) \in DOMAIN store0
    /\ store[PreviousKeyOf(MonitoredURL)] = store0[PreviousKeyOf(MonitoredURL)]
    /\ store[PreviousKeyOf(OtherTeamURL)] # store[PreviousKeyOf(MonitoredURL)]

(***************************************************************************)
(* C13.  In every run, post is called only after an uploadMedia of the     *)
(* same run that succeeded, and with the media id that call returned; a    *)
(* run whose uploadMedia fails does not call post.                         *)
(***************************************************************************)
C13_PostFollowsUpload ==
    /\ \A i \in DOMAIN log :
          log[i].op = "postTweet" =>
              \E j \in 1..(i - 1) : log[j].op = "uploadMedia" /\ log[j].ok
    /\ PublishFailedIn(SelectSeq(log, LAMBDA c : c.op = "uploadMedia")) =>
          ~HasCalled("postTweet")
    \* the media id handed to post is the one the upload returned
    /\ pc = "normal_tweet" \/ HasCalled("postTweet") =>
          mediaID = uploads /\ mediaID > 0
    /\ Succeeded("postTweet") => tweets[Len(tweets)].media = <<mediaID>>

C13_Witness ==
    /\ pc = "done"
    /\ Succeeded("uploadMedia")
    /\ Succeeded("postTweet")
    /\ tweets = << [media |-> <<uploads>>] >>

(***************************************************************************)
(* C14.  A run whose VerifyCredentials or ScrapePage fails ends as failed  *)
(* right there: it makes no read and no write of the bucket and no         *)
(* uploadMedia or post call.                                               *)
(***************************************************************************)
BucketOps == PutOps \cup {"downloadPrevious"}

CaptureFailedAt(i) ==
    log[i].op \in {"verifyCredentials", "scrapePage"} /\ ~log[i].ok

C14_FailsBeforeBucket ==
    \A i \in DOMAIN log :
        CaptureFailedAt(i) =>
            /\ i = Len(log)
            /\ pc = "done"
            /\ result.Error # ""
            /\ ~result.ChangesFound
            /\ \A j \in DOMAIN log : log[j].op \notin BucketOps \cup PublishOps
            /\ store = store0

\* The page could not be captured, after the credentials were verified.
C14_Witness ==
    /\ Len(log) = 2
    /\ log[1].ok
    /\ CaptureFailedAt(2)
    /\ result.Error = "failed to scrape page"
    /\ PreviousKey \in DOMAIN store

(***************************************************************************)
(* C15.  Within one invocation the configured URLs are processed one at a  *)
(* time in the order of the configuration, and once the URLs are being     *)
(* processed every one of them is, whatever failed for the URLs before it. *)
(***************************************************************************)
C15_SequentialInOrder ==
    cli.phase \in {"urls", "exited"} =>
        /\ Len(cli.processed) <= Len(cli.urls)
        /\ \A i \in DOMAIN cli.processed : cli.processed[i].url = cli.urls[i]
        /\ Running => /\ cli.next = Len(cli.processed) + 1
                      /\ cli.next <= Len(cli.urls)
                      /\ url = cli.urls[cli.next]
        /\ cli.phase = "exited" /\ cli.fatal \notin {"config", "client", "probe"} =>
              Len(cli.processed) = Len(cli.urls)

\* The first URL failed and the second one was processed and posted.
C15_Witness ==
    /\ cli.phase = "exited"
    /\ Len(cli.processed) = 2
    /\ cli.processed[1].failed
    /\ ~cli.processed[2].failed
    /\ Succeeded("postTweet")

(***************************************************************************)
(* C16.  As claimed: the command line exits with code 1 exactly when       *)
(* config.LoadConfig or the probe of the bucket fails, and then no URL     *)
(* has been processed; in every other case it exits with code 0.           *)
(***************************************************************************)
CommandLineExited == cli.entry = "cli" /\ cli.phase = "exited"

NothingProcessed ==
    /\ cli.processed = << >>
    /\ runs = 0
    /\ log = << >>
    /\ store = store0
    /\ tweets = << >>
    /\ uploads = 0
    /\ localFiles = {}

C16_Original ==
    CommandLineExited =>
        /\ cli.exit \in {0, 1}
        /\ cli.exit = 1 <=> cli.fatal \in {"config", "probe"}
        /\ cli.exit = 1 => NothingProcessed

\* C16, as amended: the command line exits with code 1 exactly when
\* config.LoadConfig, the creation of the S3 client or the probe of the
\* bucket fails, and then no URL has been processed; in every other case it
\* exits with code 0 after it has processed every URL, however many failed.
C16_ExitCode ==
    CommandLineExited =>
        /\ cli.exit \in {0, 1}
        /\ cli.exit = 1 <=> cli.fatal \in {"config", "client", "probe"}
        /\ cli.exit = 1 => NothingProcessed
        /\ cli.exit = 0 => Len(cli.processed) = Len(cli.urls)

\* Both URLs failed and the exit code is 0.
C16_Witness ==
    /\ CommandLineExited
    /\ cli.exit = 0
    /\ Len(cli.processed) = 2
    /\ \A i \in DOMAIN cli.processed : cli.processed[i].failed

(***************************************************************************)
(* Reading a call of a function of package schedule.                       *)
(***************************************************************************)
AddedKeys == DOMAIN call.diff.Added
DeletedKeys == DOMAIN call.diff.Deleted
ModifiedKeys == DOMAIN call.diff.Modified
UnchangedKeys == DOMAIN call.diff.Unchanged

(***************************************************************************)
(* C17.  For every pair of schedules old and new, an absent (nil) or empty *)
(* old included, the key sets of Added, Deleted, Modified and Unchanged    *)
(* that CompareSchedules returns are pairwise disjoint and their union is  *)
(* keys(old) \cup keys(new).                                               *)
(***************************************************************************)
C17_DiffPartitionsKeys ==
    call.op = "CompareSchedules" =>
        /\ AddedKeys \cap DeletedKeys = {}
        /\ AddedKeys \cap ModifiedKeys = {}
        /\ AddedKeys \cap UnchangedKeys = {}
        /\ DeletedKeys \cap ModifiedKeys = {}
        /\ DeletedKeys \cap UnchangedKeys = {}
        /\ ModifiedKeys \cap UnchangedKeys = {}
        /\ AddedKeys \cup DeletedKeys \cup ModifiedKeys \cup UnchangedKeys
               = Keys(input.old) \cup Keys(input.new)

\* A comparison that deleted one key and found the other one modified.
C17_Witness ==
    /\ call.op = "CompareSchedules"
    /\ DeletedKeys # {}
    /\ ModifiedKeys # {}
    /\ Keys(input.old) \cup Keys(input.new) = {KeyOrder[i] : i \in DOMAIN KeyOrder}


(***************************************************************************)
(* C18.  A key present in both old and new is in Modified if and only if   *)
(* the two entries differ in purpose, location or timeBlock, and in        *)
(* Unchanged otherwise; a difference in parsedTime alone never makes an    *)
(* entry modified.                                                         *)
(***************************************************************************)
InBoth == Keys(input.old) \cap Keys(input.new)

Differ(k) ==
    \/ input.old[k].purpose # input.new[k].purpose
    \/ input.old[k].location # input.new[k].location
    \/ input.old[k].timeBlock # input.new[k].timeBlock

C18_ModifiedIffThreeFieldsDiffer ==
    call.op = "CompareSchedules" =>
        \A k \in InBoth :
            /\ k \in ModifiedKeys <=> Differ(k)
            /\ k \in UnchangedKeys <=> ~Differ(k)

\* A key whose two entries differ in parsedTime only, reported unchanged, next
\* to a key whose entries differ in purpose only, reported modified.
C18_Witness ==
    /\ call.op = "CompareSchedules"
    /\ \E k \in InBoth :
          /\ input.old[k].parsedTime # input.new[k].parsedTime
          /\ ~Differ(k)
          /\ k \in UnchangedKeys
    /\ \E k \in InBoth :
          /\ input.old[k].purpose # input.new[k].purpose
          /\ input.old[k].location = input.new[k].location
          /\ input.old[k].timeBlock = input.new[k].timeBlock
          /\ k \in ModifiedKeys


(***************************************************************************)
(* C19.  When <id>/previousSchedule.json does not exist, LoadSchedule      *)
(* returns no error and an empty schedule, so CompareSchedules of it with  *)
(* any non-empty extracted schedule has Added equal to the whole schedule  *)
(* and Deleted and Modified both empty.                                    *)
(***************************************************************************)
\* The bucket answered LoadSchedule that there is no such key.
LoadedAbsent ==
    /\ call.op = "LoadSchedule"
    /\ call.ok
    /\ PreviousKey \notin DOMAIN store

C19_AbsentPreviousAddsAll ==
    LoadedAbsent =>
        /\ ~call.err
        /\ call.schedule = EmptySchedule
        /\ Keys(input.new) # {} =>
              LET diff == CompareSchedules(call.schedule, input.new)
              IN  /\ diff.Added = input.new
                  /\ diff.Deleted = EmptySchedule
                  /\ diff.Modified = EmptySchedule
                  /\ HasChanges(diff)

\* The key is absent and the extracted schedule has two entries.
C19_Witness ==
    /\ LoadedAbsent
    /\ ~call.err
    /\ Keys(input.new) = {KeyOrder[i] : i \in DOMAIN KeyOrder}
    /\ DOMAIN CompareSchedules(call.schedule, input.new).Added = Keys(input.new)


(***************************************************************************)
(* C20.  For every schedule s, DeserializeSchedule(SerializeSchedule(s))   *)
(* succeeds and has exactly the keys of s with, for each key, the same     *)
(* dayOfWeek, dayOfMonth, purpose, location and timeBlock; CompareSchedules *)
(* of s with the copy reports every key unchanged.                         *)
(***************************************************************************)
C20_RoundTrip ==
    call.op = "DeserializeSchedule" =>
        /\ ~call.err
        /\ Keys(call.schedule) = Keys(input.new)
        /\ \A k \in Keys(input.new) :
              \A f \in {"dayOfWeek", "dayOfMonth", "purpose", "location", "timeBlock"} :
                  call.schedule[k][f] = input.new[k][f]
        /\ LET diff == CompareSchedules(input.new, call.schedule)
           IN  /\ DOMAIN diff.Unchanged = Keys(input.new)
               /\ ~HasChanges(diff)

\* A schedule of two entries, one with an empty purpose (left out of the
\* bytes), came back with the same five fields, though not as the same value:
\* its parsedTime lost the monotonic reading.
C20_Witness ==
    /\ call.op = "DeserializeSchedule"
    /\ Keys(input.new) = {KeyOrder[i] : i \in DOMAIN KeyOrder}
    /\ \E k \in Keys(input.new) : input.new[k].purpose = ""
    /\ \E k \in Keys(input.new) : input.new[k].purpose # ""
    /\ call.schedule # input.new
    /\ DOMAIN CompareSchedules(input.new, call.schedule).Unchanged = Keys(input.new)



(***************************************************************************)
(* C21.  For any two captures that differ only in zero-width characters    *)
(* (U+200B, U+200C, U+200D, U+FEFF), dash variants (hyphen, en-dash,       *)
(* em-dash) or leading and trailing white space of their texts,            *)
(* ParseSchedule returns equal schedules, so the diff between them has no  *)
(* changes.                                                                *)
(***************************************************************************)
\* text without zero-width characters, every dash a hyphen, trimmed.
Plain(text) ==
    LET visible == RemoveAll(text, ZeroWidth)
    IN  TrimSpace([i \in DOMAIN visible |->
                      IF visible[i] \in Dashes THEN Hyphen ELSE visible[i]])

DifferOnlyInNoise(c1, c2) ==
    /\ Len(c1) = Len(c2)
    /\ \A i \in DOMAIN c1 : Plain(c1[i]) = Plain(c2[i])

C21_Original ==
    (call.op = "ParseSchedule" /\ DifferOnlyInNoise(input.c1, input.c2)) =>
        /\ call.s1 = call.s2
        /\ ~HasChanges(CompareSchedules(call.s1, call.s2))

\* The date header of the second capture ends with U+200C: the first capture
\* gives the entry of the page, the second one gives no entry at all.
C21_Witness ==
    /\ call.op = "ParseSchedule"
    /\ Len(input.c1) = 2
    /\ input.c1[1] = DateHeader("TUESDAY", "10/3")
    /\ input.c2 = [input.c1 EXCEPT ![1] = input.c1[1] \o <<"U+200C">>]
    /\ DifferOnlyInNoise(input.c1, input.c2)
    /\ call.s1 = ParseSchedule(PageA)
    /\ call.s2 = EmptySchedule

(***************************************************************************)
(* C22.  The normalizer is idempotent: for every text t,                   *)
(* SanitizeText(SanitizeText(t)) equals SanitizeText(t).                   *)
(***************************************************************************)
C22_Idempotent ==
    call.op = "SanitizeTextAgain" => call.sanitized = call.text

\* A text that begins with a zero-width character and a space and holds an
\* en-dash was sanitized twice; the first pass changed it.
C22_Witness ==
    /\ call.op = "SanitizeTextAgain"
    /\ Len(input.text) = 3
    /\ input.text[1] \in ZeroWidth
    /\ input.text[2] = " "
    /\ input.text[3] = EnDash
    /\ call.text = <<Hyphen>>
    /\ call.sanitized = <<Hyphen>>


(***************************************************************************)
(* C25.  When the row that follows a long-form date header has no time     *)
(* block and no comma ("Practice is canceled" under "SATURDAY, 10/7"),     *)
(* extraction yields an entry for that date with empty timeBlock, empty    *)
(* purpose and location equal to the text of the row.                      *)
(***************************************************************************)
\* A row without a comma and without a time.
BareRow(text) == ~Contains(text, {","} \cup Times) /\ TrimSpace(text) # << >>

\* doc is a date header followed by a bare row.
HeaderThenBareRow(doc) ==
    /\ Len(doc) = 2
    /\ IsDateHeader(doc[1])
    /\ BareRow(doc[2])

C25_Original ==
    (call.op = "ParseSchedule" /\ HeaderThenBareRow(input.c1)) =>
        LET key == <<input.c1[1][1], input.c1[1][Len(input.c1[1])]>>
        IN  /\ key \in Keys(call.s1)
            /\ call.s1[key] = ScheduleEntry(key[1], key[2], "",
                                            String(TrimSpace(input.c1[2])), "")

\* "SATURDAY, 10/7" followed by "Practice is canceled": no entry at all.
C25_Witness ==
    /\ call.op = "ParseSchedule"
    /\ input.c1 = <<DateHeader("SATURDAY", "10/7"), <<"Practice is canceled">>>>
    /\ call.s1 = EmptySchedule


(***************************************************************************)
(* C29.  Each long-form date header is bound to at most one activity row,  *)
(* the first one after it, and is consumed by that binding: a further      *)
(* activity row that arrives before the next date header neither creates   *)
(* an entry nor overwrites the entry already bound to that date.           *)
(***************************************************************************)
IsActivityRow(raw) ==
    Classify(raw) # << >> /\ Classify(raw)[1].elementType = "activity"

\* doc is a date header followed by two activity rows.
HeaderThenTwoRows(doc) ==
    /\ Len(doc) = 3
    /\ IsDateHeader(doc[1])
    /\ IsActivityRow(doc[2])
    /\ IsActivityRow(doc[3])

C29_Original ==
    (call.op = "ParseSchedule" /\ HeaderThenTwoRows(input.c1)) =>
        LET key == <<input.c1[1][1], input.c1[1][Len(input.c1[1])]>>
            first == parseEventText(input.c1[2])
        IN  /\ Keys(call.s1) = {key}
            /\ call.s1[key] = ScheduleEntry(key[1], key[2], first.purpose,
                                            first.location, first.timeBlock)

\* "TUESDAY, 10/3", "Practice, Warren, 4:45-6:45", "Late: Aiden, Zach": the
\* entry of the date is the one of the row "Late".
C29_Witness ==
    /\ call.op = "ParseSchedule"
    /\ HeaderThenTwoRows(input.c1)
    /\ input.c1[1] = DateHeader("TUESDAY", "10/3")
    /\ parseEventText(input.c1[2]).timeBlock = "4:45-6:45"
    /\ call.s1[<<"TUESDAY", "10/3">>] =
           ScheduleEntry("TUESDAY", "10/3", "Late: Aiden", "Zach", "")


(***************************************************************************)
(* C30.  When the input produces two entries with the same key, the        *)
(* resulting schedule holds exactly the later-seen entry under that key    *)
(* and a warning is logged for the collision.                              *)
(***************************************************************************)
IsSimpleDateRow(raw) ==
    Classify(raw) # << >> /\ Classify(raw)[1].elementType = "simple-date"

\* doc is two short-form rows for one date.
TwoRowsOneDate(doc) ==
    /\ Len(doc) = 2
    /\ IsSimpleDateRow(doc[1])
    /\ IsSimpleDateRow(doc[2])
    /\ Classify(doc[1])[1].dayOfMonth = Classify(doc[2])[1].dayOfMonth

C30_Original ==
    (call.op = "ParseSchedule" /\ TwoRowsOneDate(input.c1)) =>
        LET later == Classify(input.c1[2])[1]
        IN  /\ Keys(call.s1) = {<<later.dayOfMonth>>}
            /\ call.s1[<<later.dayOfMonth>>] =
                   ScheduleEntry("", later.dayOfMonth, later.purpose,
                                 later.location, later.timeBlock)
            /\ call.logged # << >>

\* "11/19 : BTC, 6:00-7:30" then "11/19: Warren, 4:30": one entry, the second
\* one, and nothing logged.
C30_Witness ==
    /\ call.op = "ParseSchedule"
    /\ TwoRowsOneDate(input.c1)
    /\ input.c1[1] # input.c1[2]
    /\ call.s1[<<"11/19">>] = ScheduleEntry("", "11/19", "", "Warren", "4:30")
    /\ call.logged = << >>


(***************************************************************************)
(* C23.  GetURLIdentifier is a pure function of (url, isTest): a URL with  *)
(* and without a trailing slash yields the same identifier, the identifier *)
(* is the last non-empty path segment ("unknown" when there is none), and  *)
(* isTest = true yields the result of isTest = false with exactly one      *)
(* "-test" appended.                                                       *)
(***************************************************************************)
\* What the claim gives for url and isTest.
ClaimedIdentifier(u, isTest) ==
    IF isTest THEN LastNonEmpty(u.path) \o "-test" ELSE LastNonEmpty(u.path)

C23_Original ==
    call.op \in {"GetURLIdentifier", "GetURLIdentifierAgain"} =>
        /\ call.identifier = ClaimedIdentifier(input.url, input.isTest)
        /\ call.withSlash = call.identifier
        /\ call.op = "GetURLIdentifierAgain" => call.identifier = call.before

\* A URL that url.Parse rejects and that has no path: the identifier is the
\* host, not "unknown".
C23_Witness ==
    /\ call.op = "GetURLIdentifier"
    /\ ~input.url.parses
    /\ input.url.path = << >>
    /\ ~input.isTest
    /\ call.identifier = input.url.origin
    /\ ClaimedIdentifier(input.url, input.isTest) = "unknown"

(***************************************************************************)
(* C24.  The archive is append-only: across runs in any modes and with any *)
(* timing between them, no step deletes an object under <id>/archive/ or   *)
(* changes its bytes, so every archive put targets a key that did not      *)
(* exist before.                                                           *)
(***************************************************************************)
ArchiveKeys(bucket) == {k \in DOMAIN bucket : k.folder = "archive"}

C24_Original ==
    [][\A k \in ArchiveKeys(store) :
           k \in DOMAIN store' /\ store'[k] = store[k]]_vars

\* An archived object that was in the bucket when the run started now holds
\* other bytes: the run's put went to the key of the same second.
C24_Witness ==
    /\ runs = 2
    /\ \E k \in ArchiveKeys(store0) \cap ArchiveKeys(store) :
           store[k] # store0[k]

(***************************************************************************)
(* C28.  As claimed: after a run in no-tweet mode has committed the        *)
(* schedule of a page to previousSchedule.json, a normal run on the same   *)
(* page finds no change and sends no post.                                 *)
(***************************************************************************)
LastCommittedWithoutTweet ==
    /\ last.ran
    /\ last.mode = ModeNoTweet
    /\ \E i \in DOMAIN last.log :
           last.log[i].op = "putPrevious" /\ last.log[i].ok

C28_Original ==
    LastCommittedWithoutTweet /\ NormalAgainOnSamePage =>
        /\ ~result.ChangesFound
        /\ ~HasCalled("postTweet")

\* The normal run's read of the committed schedule failed, and it posted the
\* schedule the no-tweet run had committed.
C28_Witness ==
    /\ LastCommittedWithoutTweet
    /\ NormalAgainOnSamePage
    /\ ReadFailed
    /\ DeserializeSchedule(PreviousBlob(store0)) = result.CurrentSchedule
    /\ Succeeded("postTweet")

(***************************************************************************)
(* C27.  When two normal runs for the same URL overlap, interleaved at     *)
(* their outside calls, previousSchedule.json holds at every moment either *)
(* what it held before the two runs or the schedule of a run whose post    *)
(* had succeeded by then: no interleaving commits a schedule that was      *)
(* never posted.                                                           *)
(***************************************************************************)
\* The run with locals c has posted: its tweet, with its media, is on Twitter.
Posted(c) ==
    /\ c.result.TweetID \in DOMAIN tweets
    /\ tweets[c.result.TweetID].media = <<c.mediaID>>

PostedSchedules ==
    {c.result.CurrentSchedule : c \in {c \in {Context, peer} : Posted(c)}}

PreviousUntouched ==
    /\ (PreviousKey \in DOMAIN store) = (PreviousKey \in DOMAIN store0)
    /\ PreviousKey \in DOMAIN store => store[PreviousKey] = store0[PreviousKey]

C27_CommittedWasPosted ==
    \/ PreviousUntouched
    \/ /\ PreviousKey \in DOMAIN store
       /\ \E s \in PostedSchedules : store[PreviousKey] = SerializeSchedule(s)

\* Both runs found changes and posted, each another schedule; the current one
\* has committed its schedule while the other, which posted first, stands
\* before its own commit.
C27_Witness ==
    /\ peer.pc = "normal_previous"
    /\ pc = "normal_archive"
    /\ Posted(peer) /\ Posted(Context)
    /\ peer.result.TweetID < result.TweetID
    /\ peer.result.CurrentSchedule # result.CurrentSchedule
    /\ ~PreviousUntouched
    /\ store[PreviousKey] = SerializeSchedule(result.CurrentSchedule)

(***************************************************************************)
(* C26.  As claimed: when the page stays at a schedule S that is not the   *)
(* committed previous schedule, normal runs keep coming and the calls of a *)
(* run eventually all succeed, then eventually a post for S has been sent  *)
(* and previousSchedule.json holds S, and every run from then on reports   *)
(* no change.                                                              *)
(***************************************************************************)
\* A run has returned with every one of its calls succeeded.
RunSucceeded == pc = "done" /\ Compared /\ AllSucceeded

\* A post has been sent (every post is for the page that stays) and
\* previousSchedule.json holds the schedule of the page.
NotifiedAndCommitted ==
    /\ Len(tweets) > 0
    /\ PreviousKey \in DOMAIN store
    /\ store[PreviousKey] = SerializeSchedule(FixedSchedule)

\* The current run started with the schedule of the page committed.
StartedCommitted ==
    /\ pc # "idle"
    /\ PreviousKey \in DOMAIN store0
    /\ store0[PreviousKey] = SerializeSchedule(FixedSchedule)

=============================================================================
